---- MODULE Spec2Model ----
(***************************************************************************)
(* A model of pack-rs: the archive builder (PackBuilder), the extractor    *)
(* (PackReader), the path sanitizer and the TaskRunner thread pool.        *)
(*                                                                         *)
(* Bytes are not stored one by one.  A run of bytes is a "segment"         *)
(* <<src, off, len>>: the len bytes at offset off of the source item src   *)
(* (a file of the input tree, or the target of a symlink); src = 0 is a    *)
(* run of zero bytes.  A byte string is a sequence of segments.            *)
(*                                                                         *)
(* A u64 is an integer; a u64 that wrapped below zero is kept as the       *)
(* negative number v - 2^64, so the wrapping subtraction and addition of   *)
(* the code are the integer ones and a wrapped value is one below zero.    *)
(***************************************************************************)
EXTENDS Integers, Sequences, FiniteSets, TLC

VARIABLES
    \* ---- the input tree and the build (src/main.rs) ----
    srclen,          \* srclen[i]: length of the file / link target behind item i
    overflow_checks, \* whether the build panics on integer overflow
    item,            \* table item: sequence of [parent, kind, name], id = index
    content,         \* table content: sequence of blobs, id = index
    itemcontent,     \* table itemcontent: sequence of rows
    current_pos,     \* PackBuilder.current_pos
    contents,        \* PackBuilder.contents (the pending bundle)
    bstatus,         \* "building", "finished", "panicked", "failed"
    subdirs,         \* add_dir_all: the stack of (parent_id) still to visit
    curdir,          \* add_dir_all: parent_id of the directory being read
    walk,            \* "top": in create_archive's loop; "dir": in add_dir_all
    target,          \* target[i]: the path a symlink behind item i points to
    \* ---- the platform and the destination directory ----
    family,          \* target_family: "unix" or "windows"
    fsdirs,          \* directories below the working directory
    fsfiles,         \* files below the working directory: location -> bytes
    fslinks,         \* symlinks below the working directory: location -> bytes
    escapes,         \* writes that landed outside the working directory
    \* ---- PackReader.extract_all (src/main.rs) ----
    xpc,             \* "idle", "rows", "done", "error"
    plan,            \* rows of the scatter plan not yet yielded by the query
    content_id,      \* extract_all's content_id
    files,           \* extract_all's files: the batch being gathered
    file_count,      \* extract_all's file_count
    \* ---- TaskRunner (src/lib.rs) ----
    pool_size,       \* number of workers and capacity of the channel
    sender,          \* TaskRunner.sender: "open" (Some) or "closed" (taken)
    chan,            \* the jobs buffered in the channel, oldest first
    counts,          \* job_tracker: <<jobs started, jobs completed>>
    wpc,             \* wpc[w]: where worker w is in its loop
    wjob,            \* wjob[w]: the job worker w received last
    mainpc,          \* where the thread that owns the TaskRunner is
    joined,          \* drop: number of workers joined so far
    runs,            \* runs[j]: how many times job j has run
    accepted,        \* the jobs whose execute call returned Ok
    queued_at_drop,  \* the jobs that were in the channel when drop began
    wait_result,     \* what wait_until_done returned last
    \* ---- sanitize_path (src/lib.rs) ----
    dirty_path,      \* the argument of the call
    clean_path,      \* what the call returned
    ppc,             \* "none", "call", "returned"
    \* ---- is_pack_file, list_contents, extract_contents ----
    pack_file,       \* what is at the path given on the command line
    fault,           \* the call the operating system fails, or "none"
    cmd,             \* the function called: "none" when there is no call
    cmd_result,      \* what it returned: <<"Ok", v>>, <<"Err", e>>; <<>> before
    listed,          \* what list_contents has printed
    reader_open,     \* whether PackReader::new has opened the file
    \* ---- what has happened so far ----
    batches,         \* the batches extract_all handed to process_content
    first_tree       \* the destination as an earlier extract_all left it

packvars == <<srclen, overflow_checks, item, content, itemcontent,
              current_pos, contents, bstatus, subdirs, curdir, walk, target>>

fsvars == <<family, fsdirs, fsfiles, fslinks, escapes>>

readvars == <<xpc, plan, content_id, files, file_count>>

poolvars == <<pool_size, sender, chan, counts, wpc, wjob, mainpc, joined,
              runs, accepted, queued_at_drop, wait_result>>

pathvars == <<dirty_path, clean_path, ppc>>

cmdvars == <<pack_file, fault, cmd, cmd_result, listed, reader_open>>

histvars == <<batches, first_tree>>

nonpool == <<packvars, fsvars, readvars, pathvars, cmdvars, histvars>>

vars == <<packvars, fsvars, readvars, poolvars, pathvars, cmdvars, histvars>>

KIND_FILE == 0
KIND_DIRECTORY == 1
KIND_SYMLINK == 2
BUNDLE_SIZE == 16777216

\* Bounds of the model.
MaxItems == 4
PoolSizes == {1, 2}
MaxJobs == 5

\* Lengths of the files and of the link targets of the input tree.
FileLens == {0, 1, BUNDLE_SIZE - 1, 2 * BUNDLE_SIZE + 1}
LinkTargets == {<<"t">>, <<".", ".">>}

\* Names of the entries of the input tree, by item id: one path atom each.
EntryNames == <<"n1", "n2", "n3", "n4", "n5", "n6", "n7", "n8", "n9",
                "n10">>
get_file_name(i) == <<EntryNames[i]>>

(***************************************************************************)
(* Paths.  A path is a sequence of atoms: "/" and "\\" are the separators, *)
(* "." is a dot, ":" a colon, "C" and "D" are drive letters and any other  *)
(* atom is one or more ordinary characters.                                *)
(***************************************************************************)
IsSep(fam, a) == a = "/" \/ (fam = "windows" /\ a = "\\")

DriveLetters == {"C", "D"}

\* Length of the prefix std::path parses at the start of a path: a drive
\* ("C:") on windows, nothing on unix.
PrefixLen(fam, p) ==
    IF fam = "windows" /\ Len(p) >= 2 /\ p[1] \in DriveLetters /\ p[2] = ":"
    THEN 2 ELSE 0

\* The pieces between separators, empty ones included.
RECURSIVE SplitPath(_, _, _)
SplitPath(fam, p, cur) ==
    IF p = <<>> THEN <<cur>>
    ELSE IF IsSep(fam, Head(p)) THEN <<cur>> \o SplitPath(fam, Tail(p), <<>>)
    ELSE SplitPath(fam, Tail(p), Append(cur, Head(p)))

Component(kind, name) == [kind |-> kind, name |-> name]

IsNormal(c) == c.kind = "Normal"

\* The component a piece between separators stands for: none for an empty
\* piece and for ".", but a "." that starts a path without a root is CurDir.
PieceComponents(piece, first, has_root) ==
    IF piece = <<>> THEN <<>>
    ELSE IF piece = <<".">>
         THEN IF first /\ ~has_root THEN <<Component("CurDir", piece)>> ELSE <<>>
    ELSE IF piece = <<".", ".">> THEN <<Component("ParentDir", piece)>>
    ELSE <<Component("Normal", piece)>>

RECURSIVE PiecesFrom(_, _, _)
PiecesFrom(pieces, i, has_root) ==
    IF i > Len(pieces) THEN <<>>
    ELSE PieceComponents(pieces[i], i = 1, has_root)
         \o PiecesFrom(pieces, i + 1, has_root)

\* Path::components: an optional prefix, an optional root, then the
\* components of the pieces.
Components(fam, p) ==
    LET n == PrefixLen(fam, p)
        rest == SubSeq(p, n + 1, Len(p))
        has_root == rest # <<>> /\ IsSep(fam, rest[1])
    IN (IF n > 0 THEN <<Component("Prefix", SubSeq(p, 1, n))>> ELSE <<>>)
       \o (IF has_root THEN <<Component("RootDir", <<rest[1]>>)>> ELSE <<>>)
       \o PiecesFrom(SplitPath(fam, rest, <<>>), 1, has_root)

MainSep(fam) == IF fam = "windows" THEN "\\" ELSE "/"

\* PathBuf::push of one component: a pushed path with a prefix replaces the
\* buffer; otherwise a separator is added unless the buffer is empty or ends
\* with one, or is a bare drive.
PathPush(fam, buf, c) ==
    IF PrefixLen(fam, c.name) > 0 THEN c.name
    ELSE IF buf = <<>> \/ IsSep(fam, buf[Len(buf)])
            \/ (PrefixLen(fam, buf) > 0 /\ PrefixLen(fam, buf) = Len(buf))
         THEN buf \o c.name
    ELSE buf \o <<MainSep(fam)>> \o c.name

RECURSIVE JoinAll(_, _, _)
JoinAll(fam, buf, cs) ==
    IF cs = <<>> THEN buf
    ELSE JoinAll(fam, PathPush(fam, buf, Head(cs)), Tail(cs))

sanitize_path(fam, dirty) ==
    JoinAll(fam, <<>>, SelectSeq(Components(fam, dirty), IsNormal))

(***************************************************************************)
(* Byte strings as sequences of segments.                                  *)
(***************************************************************************)
Min(a, b) == IF a < b THEN a ELSE b

\* A u64 that wrapped: at least 2^63, beyond i64::MAX.
IsHuge(v) == v < 0

RECURSIVE SegsLen(_)
SegsLen(s) == IF s = <<>> THEN 0 ELSE Head(s)[3] + SegsLen(Tail(s))

\* The bytes of s from position n on (a seek to n).
RECURSIVE SegsDrop(_, _)
SegsDrop(s, n) ==
    IF s = <<>> \/ n <= 0 THEN s
    ELSE IF Head(s)[3] <= n THEN SegsDrop(Tail(s), n - Head(s)[3])
    ELSE <<<<Head(s)[1], IF Head(s)[1] = 0 THEN 0 ELSE Head(s)[2] + n,
             Head(s)[3] - n>>>> \o Tail(s)

\* The first n bytes of s, fewer when s is shorter (Read::take(n)).
RECURSIVE SegsTake(_, _)
SegsTake(s, n) ==
    IF s = <<>> \/ n <= 0 THEN <<>>
    ELSE IF Head(s)[3] <= n THEN <<Head(s)>> \o SegsTake(Tail(s), n - Head(s)[3])
    ELSE <<<<Head(s)[1], Head(s)[2], n>>>>

\* Equal byte strings have equal normal forms: empty segments dropped and
\* adjacent segments of one source joined.
RECURSIVE SegsNorm(_)
SegsNorm(s) ==
    IF s = <<>> THEN <<>>
    ELSE IF Head(s)[3] = 0 THEN SegsNorm(Tail(s))
    ELSE LET r == SegsNorm(Tail(s))
             h == Head(s)
         IN IF r # <<>> /\ r[1][1] = h[1]
               /\ (h[1] = 0 \/ r[1][2] = h[2] + h[3])
            THEN <<<<h[1], h[2], h[3] + r[1][3]>>>> \o Tail(r)
            ELSE <<h>> \o r

\* The whole content of source i, as one byte string.
SourceBytes(len, i) == <<<<i, 0, len[i]>>>>

\* zstd: the blob kept in the content table and what decoding it gives back.
Compress(bytes) == [zstd |-> bytes]
Decompress(blob) == blob.zstd

(***************************************************************************)
(* PackBuilder.  The operations are functions of the record                *)
(* [item, content, itemcontent, current_pos, contents, status] and of the  *)
(* input tree; the actions below apply them to the variables.              *)
(***************************************************************************)
Builder == [item |-> item, content |-> content, itemcontent |-> itemcontent,
            current_pos |-> current_pos, contents |-> contents,
            status |-> bstatus]

IncomingContent(kind, item_id, itempos, contentpos, size) ==
    [kind |-> kind, item |-> item_id, itempos |-> itempos,
     contentpos |-> contentpos, size |-> size]

\* What insert_content feeds the encoder for one pending slice: a file is
\* opened, sought to itempos and read for at most size bytes; a link is read
\* whole.
SliceBytes(len, c) ==
    IF c.kind = KIND_FILE
    THEN LET rest == SegsDrop(SourceBytes(len, c.item), c.itempos)
         IN IF IsHuge(c.size) THEN rest ELSE SegsTake(rest, c.size)
    ELSE SourceBytes(len, c.item)

RECURSIVE BundleBytes(_, _)
BundleBytes(len, cs) ==
    IF cs = <<>> THEN <<>>
    ELSE SliceBytes(len, Head(cs)) \o BundleBytes(len, Tail(cs))

\* The itemcontent rows of the pending slices, in order; binding a u64
\* beyond i64::MAX as an SQL parameter fails and ends the loop.
RECURSIVE InsertRows(_, _, _)
InsertRows(rows, cs, cid) ==
    IF cs = <<>> THEN [rows |-> rows, ok |-> TRUE]
    ELSE LET c == Head(cs)
         IN IF IsHuge(c.itempos) \/ IsHuge(c.contentpos) \/ IsHuge(c.size)
            THEN [rows |-> rows, ok |-> FALSE]
            ELSE InsertRows(Append(rows, [item |-> c.item, itempos |-> c.itempos,
                                          content |-> cid,
                                          contentpos |-> c.contentpos,
                                          size |-> c.size]),
                            Tail(cs), cid)

insert_content(b, len) ==
    LET blob == Compress(BundleBytes(len, b.contents))
        new_id == Len(b.content) + 1
        ins == InsertRows(b.itemcontent, b.contents, new_id)
    IN [b EXCEPT !.content = Append(@, blob),
                 !.itemcontent = ins.rows,
                 !.status = IF ins.ok THEN @ ELSE "failed"]

process_contents(b, len) ==
    LET r == insert_content(b, len)
    IN IF r.status # "building" THEN r
       ELSE [r EXCEPT !.contents = <<>>, !.current_pos = 0]

add_directory(b, parent) ==
    [b EXCEPT !.item = Append(@, [parent |-> parent, kind |-> KIND_DIRECTORY,
                                  name |-> get_file_name(Len(b.item) + 1)])]

\* SplitLoop with itempos left where it was after a slice is pushed.
RECURSIVE SplitLoopNoAdvance(_, _, _, _, _, _)
SplitLoopNoAdvance(b, len, checks, item_id, itempos, size) ==
    IF b.current_pos + size > BUNDLE_SIZE
    THEN IF b.current_pos > BUNDLE_SIZE /\ checks
         THEN [b EXCEPT !.status = "panicked"]
         ELSE LET remainder == BUNDLE_SIZE - b.current_pos
                  pushed == [b EXCEPT !.contents = Append(@,
                                IncomingContent(KIND_FILE, item_id, itempos,
                                                b.current_pos, remainder))]
                  flushed == process_contents(pushed, len)
              IN IF flushed.status # "building" THEN flushed
                 ELSE SplitLoopNoAdvance(flushed, len, checks, item_id,
                                         itempos, size - remainder)
    ELSE [b EXCEPT !.contents = Append(@,
                        IncomingContent(KIND_FILE, item_id, itempos,
                                        b.current_pos, size)),
                   !.current_pos = @ + size]

\* SplitLoop with the bundle flushed as soon as it is full.
RECURSIVE SplitLoopEager(_, _, _, _, _, _)
SplitLoopEager(b, len, checks, item_id, itempos, size) ==
    IF b.current_pos + size >= BUNDLE_SIZE
    THEN IF b.current_pos > BUNDLE_SIZE /\ checks
         THEN [b EXCEPT !.status = "panicked"]
         ELSE LET remainder == BUNDLE_SIZE - b.current_pos
                  pushed == [b EXCEPT !.contents = Append(@,
                                IncomingContent(KIND_FILE, item_id, itempos,
                                                b.current_pos, remainder))]
                  flushed == process_contents(pushed, len)
              IN IF flushed.status # "building" THEN flushed
                 ELSE SplitLoopEager(flushed, len, checks, item_id,
                                     itempos + remainder, size - remainder)
    ELSE [b EXCEPT !.contents = Append(@,
                        IncomingContent(KIND_FILE, item_id, itempos,
                                        b.current_pos, size)),
                   !.current_pos = @ + size]

\* SplitLoop with current_pos left where it was after the last slice.
RECURSIVE SplitLoopKeepsPos(_, _, _, _, _, _)
SplitLoopKeepsPos(b, len, checks, item_id, itempos, size) ==
    IF b.current_pos + size > BUNDLE_SIZE
    THEN IF b.current_pos > BUNDLE_SIZE /\ checks
         THEN [b EXCEPT !.status = "panicked"]
         ELSE LET remainder == BUNDLE_SIZE - b.current_pos
                  pushed == [b EXCEPT !.contents = Append(@,
                                IncomingContent(KIND_FILE, item_id, itempos,
                                                b.current_pos, remainder))]
                  flushed == process_contents(pushed, len)
              IN IF flushed.status # "building" THEN flushed
                 ELSE SplitLoopKeepsPos(flushed, len, checks, item_id,
                                        itempos + remainder, size - remainder)
    ELSE [b EXCEPT !.contents = Append(@,
                        IncomingContent(KIND_FILE, item_id, itempos,
                                        b.current_pos, size))]

\* The loop of add_file.  BUNDLE_SIZE - current_pos underflows when
\* current_pos is beyond BUNDLE_SIZE: a panic with overflow checks, a wrapped
\* u64 without.
RECURSIVE SplitLoop(_, _, _, _, _, _)
SplitLoop(b, len, checks, item_id, itempos, size) ==
    IF b.current_pos + size > BUNDLE_SIZE
    THEN IF b.current_pos > BUNDLE_SIZE /\ checks
         THEN [b EXCEPT !.status = "panicked"]
         ELSE LET remainder == BUNDLE_SIZE - b.current_pos
                  pushed == [b EXCEPT !.contents = Append(@,
                                IncomingContent(KIND_FILE, item_id, itempos,
                                                b.current_pos, remainder))]
                  flushed == process_contents(pushed, len)
              IN IF flushed.status # "building" THEN flushed
                 ELSE SplitLoop(flushed, len, checks, item_id,
                                itempos + remainder, size - remainder)
    ELSE [b EXCEPT !.contents = Append(@,
                        IncomingContent(KIND_FILE, item_id, itempos,
                                        b.current_pos, size)),
                   !.current_pos = @ + size]

\* add_file that starts a new bundle for a file that does not fit in what
\* is left of the pending one.
add_file_unsplit(b, len, checks, parent) ==
    LET item_id == Len(b.item) + 1
        b1 == [b EXCEPT !.item = Append(@, [parent |-> parent, kind |-> KIND_FILE,
                                            name |-> get_file_name(item_id)])]
        b2 == IF b1.current_pos > 0
                 /\ b1.current_pos + len[item_id] > BUNDLE_SIZE
              THEN process_contents(b1, len) ELSE b1
    IN SplitLoop(b2, len, checks, item_id, 0, len[item_id])

add_file(b, len, checks, parent) ==
    LET item_id == Len(b.item) + 1
        b1 == [b EXCEPT !.item = Append(@, [parent |-> parent, kind |-> KIND_FILE,
                                            name |-> get_file_name(item_id)])]
    IN SplitLoop(b1, len, checks, item_id, 0, len[item_id])

\* add_symlink with current_pos left where it was.
add_symlink_keeps_pos(b, len, parent) ==
    LET item_id == Len(b.item) + 1
    IN [b EXCEPT !.item = Append(@, [parent |-> parent, kind |-> KIND_SYMLINK,
                                     name |-> get_file_name(item_id)]),
                 !.contents = Append(@,
                        IncomingContent(KIND_SYMLINK, item_id, 0,
                                        b.current_pos, len[item_id]))]

add_symlink(b, len, parent) ==
    LET item_id == Len(b.item) + 1
        link_len == len[item_id]
    IN [b EXCEPT !.item = Append(@, [parent |-> parent, kind |-> KIND_SYMLINK,
                                     name |-> get_file_name(item_id)]),
                 !.contents = Append(@,
                        IncomingContent(KIND_SYMLINK, item_id, 0,
                                        b.current_pos, link_len)),
                 !.current_pos = @ + link_len]

\* finish without the flush of what is pending.
finish_without_flush(b, len) ==
    IF b.status # "building" THEN b ELSE [b EXCEPT !.status = "finished"]

finish(b, len) ==
    LET r == IF b.contents # <<>> THEN process_contents(b, len) ELSE b
    IN IF r.status # "building" THEN r ELSE [r EXCEPT !.status = "finished"]

SetBuilder(b) ==
    /\ item' = b.item
    /\ content' = b.content
    /\ itemcontent' = b.itemcontent
    /\ current_pos' = b.current_pos
    /\ contents' = b.contents
    /\ bstatus' = b.status

(***************************************************************************)
(* create_archive and add_dir_all: the input tree is drawn entry by entry, *)
(* in the order read_dir yields it.                                        *)
(***************************************************************************)
\* Entries added or still on the stack.
TreeSize == Len(item) + Len(subdirs)

\* create_archive: an input that is a file.
InputFile ==
    /\ bstatus = "building" /\ walk = "top" /\ TreeSize < MaxItems
    /\ \E l \in FileLens :
          /\ srclen' = Append(srclen, l)
          /\ SetBuilder(add_file(Builder, srclen', overflow_checks, 0))
    /\ target' = Append(target, <<>>)
    /\ UNCHANGED <<overflow_checks, subdirs, curdir, walk, fsvars, readvars,
                   poolvars, pathvars, cmdvars, histvars>>

\* create_archive: an input that is a directory; add_dir_all pushes it,
\* pops it and adds its row.
InputDir ==
    /\ bstatus = "building" /\ walk = "top" /\ TreeSize < MaxItems
    /\ srclen' = Append(srclen, 0)
    /\ target' = Append(target, <<>>)
    /\ SetBuilder(add_directory(Builder, 0))
    /\ curdir' = Len(item) + 1
    /\ walk' = "dir"
    /\ UNCHANGED <<overflow_checks, subdirs, fsvars, readvars, poolvars,
                   pathvars, cmdvars, histvars>>

\* add_dir_all: the directory being read holds a directory.
EntryDir ==
    /\ bstatus = "building" /\ walk = "dir" /\ TreeSize < MaxItems
    /\ subdirs' = Append(subdirs, curdir)
    /\ UNCHANGED <<srclen, overflow_checks, item, content, itemcontent,
                   current_pos, contents, bstatus, curdir, walk, target,
                   fsvars, readvars, poolvars, pathvars, cmdvars, histvars>>

\* add_dir_all: the directory being read holds a file.
EntryFile ==
    /\ bstatus = "building" /\ walk = "dir" /\ TreeSize < MaxItems
    /\ \E l \in FileLens :
          /\ srclen' = Append(srclen, l)
          /\ SetBuilder(add_file(Builder, srclen', overflow_checks, curdir))
    /\ target' = Append(target, <<>>)
    /\ UNCHANGED <<overflow_checks, subdirs, curdir, walk, fsvars, readvars,
                   poolvars, pathvars, cmdvars, histvars>>

\* add_dir_all: the directory being read holds a symbolic link.
EntrySymlink ==
    /\ bstatus = "building" /\ walk = "dir" /\ TreeSize < MaxItems
    /\ \E t \in LinkTargets :
          /\ srclen' = Append(srclen, Len(t))
          /\ target' = Append(target, t)
          /\ SetBuilder(add_symlink(Builder, srclen', curdir))
    /\ UNCHANGED <<overflow_checks, subdirs, curdir, walk, fsvars, readvars,
                   poolvars, pathvars, cmdvars, histvars>>

\* EndReadDir with the id of the row before the new directory's taken as
\* the directory's id.
EndReadDirStaleId ==
    /\ bstatus = "building" /\ walk = "dir"
    /\ IF subdirs # <<>>
       THEN /\ srclen' = Append(srclen, 0)
            /\ target' = Append(target, <<>>)
            /\ SetBuilder(add_directory(Builder, subdirs[Len(subdirs)]))
            /\ subdirs' = SubSeq(subdirs, 1, Len(subdirs) - 1)
            /\ curdir' = Len(item)
            /\ walk' = "dir"
       ELSE /\ walk' = "top"
            /\ curdir' = 0
            /\ UNCHANGED <<srclen, target, item, content, itemcontent,
                           current_pos, contents, bstatus, subdirs>>
    /\ UNCHANGED <<overflow_checks, fsvars, readvars, poolvars, pathvars,
                   cmdvars, histvars>>

\* add_dir_all: read_dir is exhausted; the next directory is popped and its
\* row added, or the walk returns to create_archive.
EndReadDir ==
    /\ bstatus = "building" /\ walk = "dir"
    /\ IF subdirs # <<>>
       THEN /\ srclen' = Append(srclen, 0)
            /\ target' = Append(target, <<>>)
            /\ SetBuilder(add_directory(Builder, subdirs[Len(subdirs)]))
            /\ subdirs' = SubSeq(subdirs, 1, Len(subdirs) - 1)
            /\ curdir' = Len(item) + 1
            /\ walk' = "dir"
       ELSE /\ walk' = "top"
            /\ curdir' = 0
            /\ UNCHANGED <<srclen, target, item, content, itemcontent,
                           current_pos, contents, bstatus, subdirs>>
    /\ UNCHANGED <<overflow_checks, fsvars, readvars, poolvars, pathvars,
                   cmdvars, histvars>>

\* create_archive: the inputs are exhausted.
Finish ==
    /\ bstatus = "building" /\ walk = "top"
    /\ SetBuilder(finish(Builder, srclen))
    /\ UNCHANGED <<srclen, target, overflow_checks, subdirs, curdir, walk,
                   fsvars, readvars, poolvars, pathvars, cmdvars, histvars>>

(***************************************************************************)
(* The destination: the file system below the working directory.  A        *)
(* location is the sequence of the names leading to it from the working    *)
(* directory, symlinks resolved.  Absolute link targets name places        *)
(* outside the working directory.                                          *)
(***************************************************************************)
DestFs == [dirs |-> fsdirs, files |-> fsfiles, links |-> fslinks,
           escapes |-> escapes, ok |-> TRUE]

\* Bounds the number of symlinks followed in one lookup (ELOOP).
MaxLinkHops == 3

\* The path a symlink holds, read back from its bytes.
LinkPath(bytes) ==
    LET n == SegsNorm(bytes)
    IN IF Len(n) = 1 /\ n[1][1] > 0 /\ n[1][1] <= Len(target)
          /\ n[1][2] = 0 /\ n[1][3] = Len(target[n[1][1]])
       THEN target[n[1][1]]
       ELSE <<"?">>

Put(f, k, v) == [x \in DOMAIN f \cup {k} |-> IF x = k THEN v ELSE f[x]]

Parent(loc) == SubSeq(loc, 1, Len(loc) - 1)

\* Path lookup: out when the path leaves the working directory, loc where
\* it ends otherwise.  The last component is followed only with follow_last.
RECURSIVE Lookup(_, _, _, _, _, _)
Lookup(fam, fs, cur, rest, hops, follow_last) ==
    IF rest = <<>> THEN [out |-> FALSE, err |-> FALSE, loc |-> cur]
    ELSE LET c == Head(rest)
             cand == Append(cur, c.name)
         IN CASE c.kind \in {"Prefix", "RootDir"} ->
                    [out |-> TRUE, err |-> FALSE, loc |-> <<>>]
              [] c.kind = "CurDir" ->
                    Lookup(fam, fs, cur, Tail(rest), hops, follow_last)
              [] c.kind = "ParentDir" ->
                    IF cur = <<>> THEN [out |-> TRUE, err |-> FALSE, loc |-> <<>>]
                    ELSE Lookup(fam, fs, Parent(cur), Tail(rest), hops, follow_last)
              [] OTHER ->
                    IF cand \in DOMAIN fs.links /\ (Tail(rest) # <<>> \/ follow_last)
                    THEN IF hops = 0
                         THEN [out |-> FALSE, err |-> TRUE, loc |-> <<>>]
                         ELSE Lookup(fam, fs, cur,
                                     Components(fam, LinkPath(fs.links[cand]))
                                        \o Tail(rest),
                                     hops - 1, follow_last)
                    ELSE Lookup(fam, fs, cand, Tail(rest), hops, follow_last)

IsDir(fs, loc) == loc = <<>> \/ loc \in fs.dirs

Exists(fs, loc) ==
    IsDir(fs, loc) \/ loc \in DOMAIN fs.files \/ loc \in DOMAIN fs.links

Fail(fs) == [fs EXCEPT !.ok = FALSE]

Escape(fs, op, path) == [fs EXCEPT !.escapes = @ \cup {<<op, path>>}]

\* fs::create_dir_all: every prefix of the path ends up a directory.
RECURSIVE MkdirPrefixes(_, _, _, _, _)
MkdirPrefixes(fam, fs, path, comps, k) ==
    IF k > Len(comps) \/ ~fs.ok THEN fs
    ELSE LET r == Lookup(fam, fs, <<>>, SubSeq(comps, 1, k), MaxLinkHops, TRUE)
         IN IF r.err THEN Fail(fs)
            ELSE IF r.out
                 THEN MkdirPrefixes(fam, Escape(fs, "create_dir_all", path),
                                    path, comps, k + 1)
            ELSE IF IsDir(fs, r.loc)
                 THEN MkdirPrefixes(fam, fs, path, comps, k + 1)
            ELSE IF Exists(fs, r.loc) \/ ~IsDir(fs, Parent(r.loc))
                 THEN Fail(fs)
            ELSE MkdirPrefixes(fam, [fs EXCEPT !.dirs = @ \cup {r.loc}],
                               path, comps, k + 1)

create_dir_all(fam, fs, path) ==
    MkdirPrefixes(fam, fs, path, Components(fam, path), 1)

\* OpenOptions::new().write(true).create(true).open(path): the place the
\* file is at, created empty when missing.
OpenCreate(fam, fs, path) ==
    LET comps == Components(fam, path)
        r == Lookup(fam, fs, <<>>, comps, MaxLinkHops, TRUE)
    IN IF comps = <<>> \/ r.err THEN [fs |-> Fail(fs), out |-> FALSE, loc |-> <<>>]
       ELSE IF r.out
            THEN [fs |-> Escape(fs, "open", path), out |-> TRUE, loc |-> <<>>]
       ELSE IF IsDir(fs, r.loc) \/ ~IsDir(fs, Parent(r.loc))
            THEN [fs |-> Fail(fs), out |-> FALSE, loc |-> <<>>]
       ELSE [fs |-> IF r.loc \in DOMAIN fs.files THEN fs
                    ELSE [fs EXCEPT !.files = Put(@, r.loc, <<>>)],
             out |-> FALSE, loc |-> r.loc]

\* WriteAt without set_len: a write beyond the end lands at the end.
WriteAtEnd(old, pos, data) ==
    SegsNorm(SegsTake(old, pos) \o data \o SegsDrop(old, pos + SegsLen(data)))

\* The bytes of a file after data is written at position pos, the file
\* having been extended with zeros to pos when it was shorter.
WriteAt(old, pos, data) ==
    LET len == SegsLen(old)
        ext == IF len < pos THEN old \o <<<<0, 0, pos - len>>>> ELSE old
    IN SegsNorm(SegsTake(ext, pos) \o data
                \o SegsDrop(ext, pos + SegsLen(data)))

\* std::os::unix::fs::symlink / std::os::windows::fs::symlink_file.
write_link(fam, fs, bytes, path) ==
    LET comps == Components(fam, path)
        r == Lookup(fam, fs, <<>>, comps, MaxLinkHops, FALSE)
    IN IF comps = <<>> \/ r.err THEN Fail(fs)
       ELSE IF r.out THEN Escape(fs, "symlink", path)
       ELSE IF Exists(fs, r.loc) \/ ~IsDir(fs, Parent(r.loc)) THEN Fail(fs)
       ELSE [fs EXCEPT !.links = Put(@, r.loc, SegsNorm(bytes))]

(***************************************************************************)
(* PackReader.                                                             *)
(***************************************************************************)
\* The rows of the item table that are children of the FIT row r, from id i
\* on, each with its full path.
RECURSIVE FitChildren(_, _, _)
FitChildren(tab, r, i) ==
    IF i > Len(tab) THEN <<>>
    ELSE (IF tab[i].parent = r.id /\ r.kind = KIND_DIRECTORY
          THEN <<[id |-> i, kind |-> tab[i].kind, parent |-> tab[i].parent,
                  path |-> r.path \o tab[i].name
                           \o (IF tab[i].kind = KIND_DIRECTORY
                               THEN <<"/">> ELSE <<>>)]>>
          ELSE <<>>) \o FitChildren(tab, r, i + 1)

\* The recursive query FIT: the rows whose parent is 0, then the children
\* of every directory row already found.
RECURSIVE FitFrom(_, _)
FitFrom(tab, queue) ==
    IF queue = <<>> THEN <<>>
    ELSE <<Head(queue)>>
         \o FitFrom(tab, Tail(queue) \o FitChildren(tab, Head(queue), 1))

FIT(tab) == FitFrom(tab, SelectSeq(
                [i \in 1..Len(tab) |->
                    [id |-> i, kind |-> tab[i].kind, parent |-> tab[i].parent,
                     path |-> tab[i].name \o (IF tab[i].kind = KIND_DIRECTORY
                                              THEN <<"/">> ELSE <<>>)]],
                LAMBDA r : r.parent = 0))

RECURSIVE EnsureDirs(_, _, _)
EnsureDirs(fam, fs, rows) ==
    IF rows = <<>> \/ ~fs.ok THEN fs
    ELSE EnsureDirs(fam,
                    IF Head(rows).kind = KIND_DIRECTORY
                    THEN create_dir_all(fam, fs, sanitize_path(fam, Head(rows).path))
                    ELSE fs,
                    Tail(rows))

\* ensure_all_directories that makes no directory.
ensure_no_directories(fam, fs, tab) == fs

ensure_all_directories(fam, fs, tab) == EnsureDirs(fam, fs, FIT(tab))

\* The temporary table IndexedFiles: every row of FIT that is no directory.
IndexedFiles(tab) == SelectSeq(FIT(tab), LAMBDA r : r.kind # KIND_DIRECTORY)

\* IndexedFiles LEFT JOIN itemcontent: one row per itemcontent row of the
\* item, or one row of NULLs (content 0 here) for an item that has none.
ScatterPlan(tab, ic) ==
    LET idx == IndexedFiles(tab)
    IN UNION {
         IF \E j \in 1..Len(ic) : ic[j].item = idx[k].id
         THEN {[ic |-> j, content |-> ic[j].content,
                contentpos |-> ic[j].contentpos, itempos |-> ic[j].itempos,
                size |-> ic[j].size, kind |-> idx[k].kind, path |-> idx[k].path]
               : j \in {j \in 1..Len(ic) : ic[j].item = idx[k].id}}
         ELSE {[ic |-> 0, content |-> 0, contentpos |-> 0, itempos |-> 0,
                size |-> 0, kind |-> idx[k].kind, path |-> idx[k].path]}
         : k \in 1..Len(idx)}

\* ORDER BY content, contentpos.
RowBefore(a, b) ==
    \/ a.content < b.content
    \/ a.content = b.content /\ a.contentpos < b.contentpos

\* The body of process_content's loop, for each entry of the batch in turn.
RECURSIVE ProcessEntries(_, _, _, _)
ProcessEntries(fam, x, buffer, entries) ==
    IF entries = <<>> \/ ~x.fs.ok THEN x
    ELSE LET entry == Head(entries)
             fpath == sanitize_path(fam, entry.path)
             chunk == SegsTake(SegsDrop(buffer, entry.contentpos), entry.size)
         IN IF entry.kind = KIND_FILE
            THEN LET o == OpenCreate(fam, x.fs, fpath)
                     old == IF o.out THEN <<>> ELSE o.fs.files[o.loc]
                     file_len == SegsLen(old)
                     counted == IF file_len = 0 THEN x.file_count + 1
                                ELSE x.file_count
                 IN IF ~o.fs.ok THEN [x EXCEPT !.fs = o.fs]
                    ELSE ProcessEntries(fam,
                            [fs |-> IF entry.size > 0 /\ ~o.out
                                    THEN [o.fs EXCEPT !.files =
                                            Put(@, o.loc,
                                                WriteAt(old, entry.itempos, chunk))]
                                    ELSE o.fs,
                             file_count |-> counted],
                            buffer, Tail(entries))
            ELSE IF entry.kind = KIND_SYMLINK
            THEN ProcessEntries(fam,
                    [x EXCEPT !.fs = write_link(fam, x.fs, chunk, fpath)],
                    buffer, Tail(entries))
            ELSE ProcessEntries(fam, x, buffer, Tail(entries))

\* process_content: the blob is opened and decoded, then the batch is
\* written; the result is the file system and the number of files counted.
process_content(fam, fs, blobs, batch) ==
    IF batch[1].content \notin 1..Len(blobs)
    THEN [fs |-> Fail(fs), file_count |-> 0]
    ELSE ProcessEntries(fam, [fs |-> fs, file_count |-> 0],
                        Decompress(blobs[batch[1].content]), batch)

SetFs(fs) ==
    /\ fsdirs' = fs.dirs
    /\ fsfiles' = fs.files
    /\ fslinks' = fs.links
    /\ escapes' = fs.escapes

\* extract_all up to its loop: the directories are made and the query of
\* the scatter plan is prepared.
ExtractBegin ==
    /\ bstatus = "finished" /\ xpc = "idle"
    /\ LET fs == ensure_all_directories(family, DestFs, item)
       IN /\ SetFs(fs)
          /\ xpc' = IF fs.ok THEN "rows" ELSE "error"
    /\ plan' = ScatterPlan(item, itemcontent)
    /\ content_id' = -1
    /\ files' = <<>>
    /\ file_count' = 0
    /\ batches' = <<>>
    /\ UNCHANGED <<packvars, family, poolvars, pathvars, cmdvars, first_tree>>

\* One turn of extract_all's loop: the query yields its next row.
ExtractRow ==
    /\ xpc = "rows"
    /\ \E indexed_file \in plan :
          /\ \A other \in plan : ~RowBefore(other, indexed_file)
          /\ plan' = plan \ {indexed_file}
          /\ IF indexed_file.content = 0
             THEN \* row.get(0) of a NULL fails
                  /\ xpc' = "error"
                  /\ UNCHANGED <<content_id, files, file_count, fsvars,
                                 batches>>
             ELSE IF indexed_file.content # content_id
             THEN LET r == IF files # <<>>
                           THEN process_content(family, DestFs, content, files)
                           ELSE [fs |-> DestFs, file_count |-> 0]
                  IN /\ SetFs(r.fs)
                     /\ file_count' = file_count + r.file_count
                     /\ xpc' = IF r.fs.ok THEN "rows" ELSE "error"
                     /\ content_id' = indexed_file.content
                     /\ files' = <<indexed_file>>
                     /\ batches' = IF files # <<>> THEN Append(batches, files)
                                   ELSE batches
                     /\ UNCHANGED family
             ELSE /\ files' = Append(files, indexed_file)
                  /\ UNCHANGED <<xpc, content_id, file_count, fsvars,
                                 batches>>
    /\ UNCHANGED <<packvars, poolvars, pathvars, cmdvars, first_tree>>

\* ExtractEnd without the call of process_content for what is left in files.
ExtractEndDropsLast ==
    /\ xpc = "rows" /\ plan = {}
    /\ xpc' = "done"
    /\ files' = <<>>
    /\ UNCHANGED <<packvars, fsvars, plan, content_id, file_count, poolvars,
                   pathvars, cmdvars, histvars>>

\* extract_all after its loop: the last batch is processed.
ExtractEnd ==
    /\ xpc = "rows" /\ plan = {}
    /\ LET r == IF files # <<>>
                THEN process_content(family, DestFs, content, files)
                ELSE [fs |-> DestFs, file_count |-> 0]
       IN /\ SetFs(r.fs)
          /\ file_count' = file_count + r.file_count
          /\ xpc' = IF r.fs.ok THEN "done" ELSE "error"
    /\ files' = <<>>
    /\ batches' = IF files # <<>> THEN Append(batches, files) ELSE batches
    /\ UNCHANGED <<packvars, family, plan, content_id, poolvars, pathvars,
                   cmdvars, first_tree>>

FsInit ==
    /\ fsdirs = {}
    /\ fsfiles = <<>>
    /\ fslinks = <<>>
    /\ escapes = {}

ReadInit ==
    /\ xpc = "idle"
    /\ plan = {}
    /\ content_id = -1
    /\ files = <<>>
    /\ file_count = 0

PackInit ==
    /\ srclen = <<>>
    /\ target = <<>>
    /\ overflow_checks \in BOOLEAN
    /\ item = <<>>
    /\ content = <<>>
    /\ itemcontent = <<>>
    /\ current_pos = 0
    /\ contents = <<>>
    /\ bstatus = "building"
    /\ subdirs = <<>>
    /\ curdir = 0
    /\ walk = "top"

(***************************************************************************)
(* TaskRunner.  The thread that owns the TaskRunner calls execute,         *)
(* wait_until_done and drop one after the other; the workers run their     *)
(* loop.  A mutex is held by the thread that is between its lock and its   *)
(* unlock: the job_tracker mutex by the owner inside execute ("send") and  *)
(* inside wait_until_done ("wait_check") and by a worker counting a job    *)
(* ("bump"); the receiver mutex by the worker inside recv ("recv").        *)
(***************************************************************************)
Workers == 1..pool_size

TrackerHeld ==
    \/ mainpc \in {"send", "wait_check"}
    \/ \E w \in Workers : wpc[w] = "bump"

ReceiverHeld == \E w \in Workers : wpc[w] = "recv"

\* Between two calls on the TaskRunner.
MainIdle == mainpc \in {"idle", "waited"}

\* Condvar::notify_all: a thread blocked in wait is made runnable.
notify_all(pc) == IF pc = "waiting" THEN "woken" ELSE pc

\* TaskRunner::new, with the rest of the model at rest.
PoolNew ==
    /\ pool_size \in PoolSizes
    /\ sender = "open"
    /\ chan = <<>>
    /\ counts = <<0, 0>>
    /\ wpc = [w \in 1..pool_size |-> "lock_rx"]
    /\ wjob = [w \in 1..pool_size |-> 0]
    /\ mainpc = "idle"
    /\ joined = 0
    /\ runs = [j \in 1..MaxJobs |-> 0]
    /\ accepted = {}
    /\ queued_at_drop = <<>>
    /\ wait_result = -1

\* execute, to its send: the job_tracker is locked, the jobs-started count
\* bumped and the condition variable notified.  The guard stays alive until
\* execute returns.
ExecuteLock ==
    /\ MainIdle /\ sender = "open" /\ ~TrackerHeld
    /\ counts[1] < MaxJobs
    /\ counts' = <<counts[1] + 1, counts[2]>>
    /\ mainpc' = "send"
    /\ UNCHANGED <<nonpool, pool_size, sender, chan, wpc, wjob, joined, runs, accepted,
                   queued_at_drop, wait_result>>

\* execute, from its send: SyncSender::send blocks while the channel is
\* full; then execute returns Ok and the guard is dropped.
ExecuteSend ==
    /\ mainpc = "send"
    /\ Len(chan) < pool_size
    /\ chan' = Append(chan, counts[1])
    /\ accepted' = accepted \cup {counts[1]}
    /\ mainpc' = "idle"
    /\ UNCHANGED <<nonpool, pool_size, sender, counts, wpc, wjob, joined, runs,
                   queued_at_drop, wait_result>>

\* wait_until_done: the job_tracker is locked.
WaitLock ==
    /\ (MainIdle \/ mainpc = "woken") /\ sender = "open" /\ ~TrackerHeld
    /\ mainpc' = "wait_check"
    /\ UNCHANGED <<nonpool, pool_size, sender, chan, counts, wpc, wjob, joined, runs,
                   accepted, queued_at_drop, wait_result>>

\* WaitCheck with the loop's test left out: counts.1 is returned at once.
WaitCheckNoTest ==
    /\ mainpc = "wait_check"
    /\ mainpc' = "waited"
    /\ wait_result' = counts[2]
    /\ UNCHANGED <<nonpool, pool_size, sender, chan, counts, wpc, wjob, joined,
                   runs, accepted, queued_at_drop>>

\* wait_until_done: the loop's test, then either the return of counts.1 or
\* Condvar::wait, which unlocks the mutex and blocks in one step.
WaitCheck ==
    /\ mainpc = "wait_check"
    /\ IF counts[1] # counts[2]
       THEN /\ mainpc' = "waiting"
            /\ UNCHANGED wait_result
       ELSE /\ mainpc' = "waited"
            /\ wait_result' = counts[2]
    /\ UNCHANGED <<nonpool, pool_size, sender, chan, counts, wpc, wjob, joined, runs,
                   accepted, queued_at_drop>>

\* Condvar::wait may return without a notification.
SpuriousWake ==
    /\ mainpc = "waiting"
    /\ mainpc' = "woken"
    /\ UNCHANGED <<nonpool, pool_size, sender, chan, counts, wpc, wjob, joined, runs,
                   accepted, queued_at_drop, wait_result>>

\* drop: the sender is taken and dropped, which closes the channel.
DropSender ==
    /\ MainIdle /\ sender = "open"
    /\ sender' = "closed"
    /\ queued_at_drop' = chan
    /\ mainpc' = "join"
    /\ UNCHANGED <<nonpool, pool_size, chan, counts, wpc, wjob, joined, runs, accepted,
                   wait_result>>

\* drop: the next worker thread is joined; after the last one drop returns.
JoinWorker ==
    /\ mainpc = "join"
    /\ wpc[joined + 1] = "exited"
    /\ joined' = joined + 1
    /\ mainpc' = IF joined + 1 = pool_size THEN "dropped" ELSE "join"
    /\ UNCHANGED <<nonpool, pool_size, sender, chan, counts, wpc, wjob, runs, accepted,
                   queued_at_drop, wait_result>>

\* Worker: receiver.lock().
WorkerLockReceiver(w) ==
    /\ wpc[w] = "lock_rx" /\ ~ReceiverHeld
    /\ wpc' = [wpc EXCEPT ![w] = "recv"]
    /\ UNCHANGED <<nonpool, pool_size, sender, chan, counts, wjob, mainpc, joined,
                   runs, accepted, queued_at_drop, wait_result>>

\* Worker: recv returns the oldest job; the receiver is unlocked.
WorkerRecv(w) ==
    /\ wpc[w] = "recv" /\ chan # <<>>
    /\ wjob' = [wjob EXCEPT ![w] = Head(chan)]
    /\ chan' = Tail(chan)
    /\ wpc' = [wpc EXCEPT ![w] = "run"]
    /\ UNCHANGED <<nonpool, pool_size, sender, counts, mainpc, joined, runs, accepted,
                   queued_at_drop, wait_result>>

\* Whether recv fails: the channel is empty and its sender is gone.
Disconnected == chan = <<>> /\ sender = "closed"

\* WorkerExit with recv failing as soon as the sender is gone, jobs still
\* buffered or not.
WorkerExitEarly(w) ==
    /\ wpc[w] = "recv" /\ sender = "closed"
    /\ wpc' = [wpc EXCEPT ![w] = "exited"]
    /\ UNCHANGED <<nonpool, pool_size, sender, chan, counts, wjob, mainpc,
                   joined, runs, accepted, queued_at_drop, wait_result>>

\* Worker: recv fails and the loop is left.
WorkerExit(w) ==
    /\ wpc[w] = "recv" /\ Disconnected
    /\ wpc' = [wpc EXCEPT ![w] = "exited"]
    /\ UNCHANGED <<nonpool, pool_size, sender, chan, counts, wjob, mainpc, joined,
                   runs, accepted, queued_at_drop, wait_result>>

\* Worker: job().
WorkerRun(w) ==
    /\ wpc[w] = "run"
    /\ runs' = [runs EXCEPT ![wjob[w]] = @ + 1]
    /\ wpc' = [wpc EXCEPT ![w] = "ran"]
    /\ UNCHANGED <<nonpool, pool_size, sender, chan, counts, wjob, mainpc, joined,
                   accepted, queued_at_drop, wait_result>>

\* Worker: the job_tracker is locked.
WorkerLockTracker(w) ==
    /\ wpc[w] = "ran" /\ ~TrackerHeld
    /\ wpc' = [wpc EXCEPT ![w] = "bump"]
    /\ UNCHANGED <<nonpool, pool_size, sender, chan, counts, wjob, mainpc, joined,
                   runs, accepted, queued_at_drop, wait_result>>

\* WorkerBump without its notify_all.
WorkerBumpNoNotify(w) ==
    /\ wpc[w] = "bump"
    /\ counts' = <<counts[1], counts[2] + 1>>
    /\ wpc' = [wpc EXCEPT ![w] = "lock_rx"]
    /\ UNCHANGED <<nonpool, pool_size, sender, chan, wjob, mainpc, joined,
                   runs, accepted, queued_at_drop, wait_result>>

\* Worker: the jobs-completed count is bumped, the condition variable
\* notified and the job_tracker unlocked.
WorkerBump(w) ==
    /\ wpc[w] = "bump"
    /\ counts' = <<counts[1], counts[2] + 1>>
    /\ mainpc' = notify_all(mainpc)
    /\ wpc' = [wpc EXCEPT ![w] = "lock_rx"]
    /\ UNCHANGED <<nonpool, pool_size, sender, chan, wjob, joined, runs, accepted,
                   queued_at_drop, wait_result>>

Worker(w) ==
    \/ WorkerLockReceiver(w)
    \/ WorkerRecv(w)
    \/ WorkerExit(w)
    \/ WorkerRun(w)
    \/ WorkerLockTracker(w)
    \/ WorkerBump(w)

\* The rest of the model while the pool runs, and the pool while the rest
\* runs.
PathAtRest ==
    /\ dirty_path = <<>>
    /\ clean_path = <<>>
    /\ ppc = "none"

HistAtRest ==
    /\ batches = <<>>
    /\ first_tree = <<>>

CmdAtRest ==
    /\ pack_file = [kind |-> "missing"]
    /\ fault = "none"
    /\ cmd = "none"
    /\ cmd_result = <<>>
    /\ listed = <<>>
    /\ reader_open = FALSE

PackAtRest ==
    /\ PackInit /\ overflow_checks = TRUE
    /\ family = "unix"
    /\ FsInit
    /\ ReadInit
    /\ PathAtRest
    /\ CmdAtRest
    /\ HistAtRest

PoolAtRest ==
    /\ pool_size = 0
    /\ sender = "closed"
    /\ chan = <<>>
    /\ counts = <<0, 0>>
    /\ wpc = <<>>
    /\ wjob = <<>>
    /\ mainpc = "none"
    /\ joined = 0
    /\ runs = <<>>
    /\ accepted = {}
    /\ queued_at_drop = <<>>
    /\ wait_result = -1

PoolInit == PoolNew /\ PackAtRest

PoolNext ==
    \/ ExecuteLock
    \/ ExecuteSend
    \/ WaitLock
    \/ WaitCheck
    \/ SpuriousWake
    \/ DropSender
    \/ JoinWorker
    \/ \E w \in Workers : WorkerLockReceiver(w)
    \/ \E w \in Workers : WorkerRecv(w)
    \/ \E w \in Workers : WorkerExit(w)
    \/ \E w \in Workers : WorkerRun(w)
    \/ \E w \in Workers : WorkerLockTracker(w)
    \/ \E w \in Workers : WorkerBump(w)

PoolSpec == PoolInit /\ [][PoolNext]_vars

\* The scheduler runs every thread that can take a step, and a thread that
\* waits for a mutex released again and again gets it in the end; a spurious
\* wake-up and the next call of the owner are not owed.
PoolFairness ==
    /\ \A w \in PoolSizes : WF_vars(w \in Workers /\ Worker(w))
    /\ \A w \in PoolSizes : SF_vars(w \in Workers /\ WorkerLockTracker(w))
    /\ WF_vars(ExecuteSend)
    /\ WF_vars(mainpc = "woken" /\ WaitLock)
    /\ WF_vars(WaitCheck)
    /\ WF_vars(JoinWorker)

FairPoolSpec == PoolSpec /\ PoolFairness

(***************************************************************************)
(* Properties of the TaskRunner.                                           *)
(***************************************************************************)
\* C5 (as claimed): an execute call that blocks on a full channel goes on
\* as soon as a worker takes a job, so it always returns: while execute is
\* in its send, some thread of the pool can take a step.
C5_ExecuteReturns == mainpc = "send" => ENABLED PoolNext

\* C6: wait_until_done returns only when completed = started; what it
\* returns is the number of execute calls that returned Ok, and each of
\* their jobs has run.
C6_WaitResult ==
    mainpc = "waited" =>
        /\ counts[1] = counts[2]
        /\ wait_result = Cardinality(accepted)
        /\ \A j \in accepted : runs[j] = 1

\* wait_until_done has returned, twice as many jobs as there are workers
\* done on a pool of more than one worker.
C6_Witness ==
    /\ mainpc = "waited"
    /\ pool_size > 1
    /\ wait_result = 2 * pool_size

\* C7: a wait_until_done call returns, whenever the threads that can run
\* do run.
C7_WaitReturns ==
    (mainpc \in {"wait_check", "waiting", "woken"}) ~> (mainpc = "waited")

\* The owner was blocked in wait_until_done and has been woken with every
\* job done.
C7_Witness ==
    /\ mainpc = "woken"
    /\ counts[1] > 1
    /\ counts[1] = counts[2]

\* C8: when drop returns the channel is closed, every worker thread has
\* exited and every job whose execute returned Ok has run exactly once.
C8_DropJoins ==
    mainpc = "dropped" =>
        /\ sender = "closed"
        /\ \A w \in Workers : wpc[w] = "exited"
        /\ \A j \in accepted : runs[j] = 1

\* drop has returned, and jobs were still in the channel when it began.
C8_Witness ==
    /\ mainpc = "dropped"
    /\ Len(queued_at_drop) > 1

(***************************************************************************)
(* Building an archive from a tree and extracting it into an empty         *)
(* directory.                                                              *)
(***************************************************************************)
Init ==
    /\ PackInit
    /\ family = "unix"
    /\ FsInit
    /\ ReadInit
    /\ PoolAtRest
    /\ PathAtRest
    /\ CmdAtRest
    /\ HistAtRest

Next ==
    \/ InputFile
    \/ InputDir
    \/ EntryDir
    \/ EntryFile
    \/ EntrySymlink
    \/ EndReadDir
    \/ Finish
    \/ ExtractBegin
    \/ ExtractRow
    \/ ExtractEnd

Spec == Init /\ [][Next]_vars

(***************************************************************************)
(* Properties of the build and of the extraction.                          *)
(***************************************************************************)
\* Where entry i of the input tree is, from the root of the tree.
RECURSIVE SourceLoc(_)
SourceLoc(i) ==
    IF item[i].parent = 0 THEN <<item[i].name>>
    ELSE Append(SourceLoc(item[i].parent), item[i].name)

ItemsOfKind(k) == {i \in 1..Len(item) : item[i].kind = k}

RowsOfItem(i) == {j \in 1..Len(itemcontent) : itemcontent[j].item = i}

RowsOfContent(c) == {j \in 1..Len(itemcontent) : itemcontent[j].content = c}

RECURSIVE SumSizes(_)
SumSizes(rows) ==
    IF rows = {} THEN 0
    ELSE LET j == CHOOSE j \in rows : TRUE
         IN itemcontent[j].size + SumSizes(rows \ {j})

\* The extracted tree holds every file and every link of the input tree
\* with its bytes.
TreeRestored ==
    /\ \A i \in ItemsOfKind(KIND_FILE) :
          /\ SourceLoc(i) \in DOMAIN fsfiles
          /\ fsfiles[SourceLoc(i)] = SegsNorm(SourceBytes(srclen, i))
    /\ \A i \in ItemsOfKind(KIND_SYMLINK) :
          /\ SourceLoc(i) \in DOMAIN fslinks
          /\ fslinks[SourceLoc(i)] = SegsNorm(SourceBytes(srclen, i))

\* C1 (as claimed): for every input tree create_archive builds an archive,
\* and extracting it into an empty directory gives back every file and every
\* symlink with exactly the original bytes.
C1_RoundTrip ==
    /\ bstatus \in {"building", "finished"}
    /\ xpc # "error"
    /\ xpc = "done" => TreeRestored

\* What holds of the code: an archive that was built extracts to the tree.
RoundTripOfBuiltArchive ==
    /\ xpc # "error"
    /\ xpc = "done" => TreeRestored

\* C2 (as claimed): after finish the sizes of the itemcontent rows of every
\* content row sum to at most BUNDLE_SIZE.
C2_BundleBound ==
    bstatus = "finished" =>
        \A c \in 1..Len(content) : SumSizes(RowsOfContent(c)) <= BUNDLE_SIZE

\* Rows j and k do not overlap in the interval starting at pos.
Apart(a, asize, b, bsize) == a + asize <= b \/ b + bsize <= a

\* C3: after a build the itemcontent rows of every FILE item of length L
\* partition [0, L): they lie in [0, L], do not overlap and their sizes sum
\* to L; a file longer than BUNDLE_SIZE has at least ceil(L / BUNDLE_SIZE)
\* rows.
C3_FilePartition ==
    bstatus = "finished" =>
        \A i \in ItemsOfKind(KIND_FILE) :
            LET rows == RowsOfItem(i)
                L == srclen[i]
            IN /\ \A j \in rows :
                     /\ itemcontent[j].itempos >= 0
                     /\ itemcontent[j].size >= 0
                     /\ itemcontent[j].itempos + itemcontent[j].size <= L
               /\ \A j, k \in rows :
                     j # k => Apart(itemcontent[j].itempos, itemcontent[j].size,
                                    itemcontent[k].itempos, itemcontent[k].size)
               /\ SumSizes(rows) = L
               /\ L > BUNDLE_SIZE =>
                     Cardinality(rows) >= (L + BUNDLE_SIZE - 1) \div BUNDLE_SIZE

\* A build is over with a file of more than two bundles split over three
\* rows, the first of them starting inside a bundle.
C3_Witness ==
    /\ bstatus = "finished"
    /\ \E i \in ItemsOfKind(KIND_FILE) :
          /\ srclen[i] > 2 * BUNDLE_SIZE
          /\ Cardinality(RowsOfItem(i)) >= 3
          /\ \E j \in RowsOfItem(i) :
                itemcontent[j].itempos = 0 /\ itemcontent[j].contentpos > 0

MaxPathLen == 4

PathAtoms == {"/", "\\", ".", ":", "C", "src"}

TestPaths == {
    <<"/", "usr", "/", ".", ".", "/", "src", "/", ".", "/", "lib", ".", "rs">>,
    <<"src", "/", "lib", ".", "rs">>,
    <<"/", "etc">>,
    <<"C", ":", "\\", "Windows">>}

DirtyPaths ==
    TestPaths \cup UNION {[1..n -> PathAtoms] : n \in 0..MaxPathLen}

PathInit ==
    /\ PackInit /\ overflow_checks = TRUE
    /\ FsInit
    /\ ReadInit
    /\ PoolAtRest
    /\ family \in {"unix", "windows"}
    /\ dirty_path \in DirtyPaths
    /\ ~(family = "windows" /\ Len(dirty_path) >= 2
         /\ IsSep(family, dirty_path[1]) /\ IsSep(family, dirty_path[2]))
    /\ clean_path = <<>>
    /\ ppc = "call"
    /\ CmdAtRest
    /\ HistAtRest

\* The call of sanitize_path and its return.
Sanitize ==
    /\ ppc = "call"
    /\ clean_path' = sanitize_path(family, dirty_path)
    /\ ppc' = "returned"
    /\ UNCHANGED <<packvars, fsvars, readvars, poolvars, dirty_path, cmdvars,
                   histvars>>

PathNext == Sanitize

SpecPath == PathInit /\ [][PathNext]_vars

(***************************************************************************)
(* Properties of sanitize_path.                                            *)
(***************************************************************************)
NormalComponents(fam, p) == SelectSeq(Components(fam, p), IsNormal)

\* C9 (as claimed): what sanitize_path returns is made of exactly the
\* Normal components of its argument, in their order, and of nothing else:
\* no prefix, no root, no "." and no "..".
C9_SanitizeNormal ==
    ppc = "returned" =>
        Components(family, clean_path) = NormalComponents(family, dirty_path)

\* What holds of the code: the same on unix, and on windows for a path none
\* of whose Normal components begins with a drive.
SanitizeNormalWithoutInnerDrive ==
    (/\ ppc = "returned"
     /\ \A k \in 1..Len(NormalComponents(family, dirty_path)) :
           PrefixLen(family, NormalComponents(family, dirty_path)[k].name) = 0)
    => Components(family, clean_path) = NormalComponents(family, dirty_path)

\* The paths of the tests give what the tests expect.
SanitizeTests ==
    ppc = "returned" =>
        /\ dirty_path = <<"/", "usr", "/", ".", ".", "/", "src", "/", ".", "/",
                     "lib", ".", "rs">>
           => clean_path = <<"usr", MainSep(family), "src", MainSep(family),
                        "lib", ".", "rs">>
        /\ (dirty_path = <<"src", "/", "lib", ".", "rs">> /\ family = "unix")
           => clean_path = dirty_path
        /\ (dirty_path = <<"/", "etc">> /\ family = "unix")
           => clean_path = <<"etc">>
        /\ (dirty_path = <<"C", ":", "\\", "Windows">> /\ family = "windows")
           => clean_path = <<"Windows">>

(***************************************************************************)
(* Extracting an archive that was not made by PackBuilder's walk: its item *)
(* rows have names and parents chosen at will, its content and itemcontent *)
(* rows are laid out as PackBuilder lays them out.                         *)
(***************************************************************************)
MaxAdvItems == 3

\* Item names: a plain one, one with a separator, one that starts with
\* "..", one with a root and one with a drive.
AdvNames == {<<"x">>, <<"x", "/", "e">>, <<".", ".", "/", "e">>,
             <<"/", "e">>, <<"C", ":", "e">>}

\* Link targets: a name, a place in the parent directory and an absolute
\* path.
AdvTargets == {<<"t">>, <<".", ".", "/", "t">>, <<"/", "t">>}

AdvParents == {0} \cup {i \in 1..Len(item) : item[i].kind = KIND_DIRECTORY}

\* The row just added to item gets another name.
Rename(b, name) == [b EXCEPT !.item[Len(b.item)].name = name]

AdvInit ==
    /\ PackInit /\ overflow_checks = TRUE
    /\ family \in {"unix", "windows"}
    /\ FsInit
    /\ ReadInit
    /\ PoolAtRest
    /\ PathAtRest
    /\ CmdAtRest
    /\ HistAtRest

\* A DIRECTORY row.
AdvDirectory ==
    /\ bstatus = "building" /\ Len(item) < MaxAdvItems
    /\ \E name \in AdvNames, parent \in AdvParents :
          SetBuilder(Rename(add_directory(Builder, parent), name))
    /\ srclen' = Append(srclen, 0)
    /\ target' = Append(target, <<>>)
    /\ UNCHANGED <<overflow_checks, subdirs, curdir, walk, fsvars, readvars,
                   poolvars, pathvars, cmdvars, histvars>>

\* A FILE row and its slice of one byte.
AdvFile ==
    /\ bstatus = "building" /\ Len(item) < MaxAdvItems
    /\ srclen' = Append(srclen, 1)
    /\ target' = Append(target, <<>>)
    /\ \E name \in AdvNames, parent \in AdvParents :
          SetBuilder(Rename(add_file(Builder, srclen', overflow_checks, parent),
                            name))
    /\ UNCHANGED <<overflow_checks, subdirs, curdir, walk, fsvars, readvars,
                   poolvars, pathvars, cmdvars, histvars>>

\* A SYMLINK row and its slice, the bytes of the target.
AdvSymlink ==
    /\ bstatus = "building" /\ Len(item) < MaxAdvItems
    /\ \E name \in AdvNames, parent \in AdvParents, t \in AdvTargets :
          /\ srclen' = Append(srclen, Len(t))
          /\ target' = Append(target, t)
          /\ SetBuilder(Rename(add_symlink(Builder, srclen', parent), name))
    /\ UNCHANGED <<overflow_checks, subdirs, curdir, walk, fsvars, readvars,
                   poolvars, pathvars, cmdvars, histvars>>

AdvNext ==
    \/ AdvDirectory
    \/ AdvFile
    \/ AdvSymlink
    \/ Finish
    \/ ExtractBegin
    \/ ExtractRow
    \/ ExtractEnd

SpecAdv == AdvInit /\ [][AdvNext]_vars

(***************************************************************************)
(* Properties of the extraction of any archive.                            *)
(***************************************************************************)
\* C10 (as claimed): whatever the names in the archive, no directory
\* creation, file open or symlink creation of extract_all lands outside the
\* working directory.
C10_NoEscape == escapes = {}

\* What holds of the code on unix: a write lands outside only through a
\* symlink that the extraction itself has made.
EscapeOnlyThroughLink ==
    (family = "unix" /\ fslinks = <<>>) => escapes = {}

(***************************************************************************)
(* is_pack_file, list_contents and extract_contents, called on whatever is *)
(* at the path.  What is there is a record: kind ("missing", "dir",        *)
(* "file"), and for a file its length, whether its first 16 bytes are      *)
(* SQL_HEADER, and what SQLite finds in it:                                *)
(*   "none"        not a database: prepare fails                           *)
(*   "no_item"     a database without a table item: prepare fails          *)
(*   "item_empty"  a database whose table item has no row                  *)
(*   "item_rows"   an archive                                              *)
(*   "item_broken" a database whose schema reads but whose table item      *)
(*                 does not (a truncated or damaged file): prepare         *)
(*                 succeeds, the first step fails                          *)
(* fault names the call that the operating system fails, if any.           *)
(***************************************************************************)
HeaderLen == 16

\* The size of a page of a database.
PageSize == 256 * HeaderLen

Stores == {"none", "no_item", "item_empty", "item_rows", "item_broken"}

PackFiles ==
    {[kind |-> "missing"], [kind |-> "dir"]}
    \cup {[kind |-> "file", len |-> l, magic |-> FALSE, db |-> "none"]
            : l \in {0, 1, HeaderLen, HeaderLen + 1, PageSize}}
    \cup {[kind |-> "file", len |-> l, magic |-> TRUE, db |-> "none"]
            : l \in {HeaderLen, HeaderLen + 1, PageSize}}
    \cup {[kind |-> "file", len |-> 2 * PageSize, magic |-> TRUE, db |-> d]
            : d \in Stores}

Faults == {"none", "metadata", "open", "read", "connect", "step"}

Ok(v) == <<"Ok", v>>
Err(e) == <<"Err", e>>

is_pack_file(f, flt) ==
    IF f.kind = "missing" \/ flt = "metadata" THEN Err("IOError")
    ELSE IF f.kind = "file" /\ f.len > HeaderLen
    THEN IF flt \in {"open", "read"} THEN Err("IOError")
         ELSE IF f.magic
         THEN IF flt = "connect" THEN Err("SQLError")
              ELSE IF f.db \in {"none", "no_item"} THEN Ok(FALSE)
              ELSE IF flt = "step" \/ f.db = "item_broken" THEN Err("SQLError")
              ELSE Ok(f.db = "item_rows")
         ELSE Ok(FALSE)
    ELSE Ok(FALSE)

\* The archive behind "item_rows": a directory holding a file of one byte
\* and a symlink.
EmptyBuilder ==
    [item |-> <<>>, content |-> <<>>, itemcontent |-> <<>>, current_pos |-> 0,
     contents |-> <<>>, status |-> "building"]

StoreLens == <<0, 1, 1>>

StoreTargets == <<<<>>, <<>>, <<"t">>>>

Store ==
    finish(add_symlink(add_file(add_directory(EmptyBuilder, 0),
                                StoreLens, TRUE, 1),
                       StoreLens, 1),
           StoreLens)

CmdInit ==
    /\ pack_file \in PackFiles
    /\ fault \in Faults
    /\ cmd \in {"is_pack_file", "list_contents", "extract_contents"}
    /\ cmd_result = <<>>
    /\ listed = <<>>
    /\ reader_open = FALSE
    /\ LET rows == pack_file.kind = "file" /\ pack_file.db = "item_rows"
       IN /\ srclen = IF rows THEN StoreLens ELSE <<>>
          /\ target = IF rows THEN StoreTargets ELSE <<>>
          /\ item = IF rows THEN Store.item ELSE <<>>
          /\ content = IF rows THEN Store.content ELSE <<>>
          /\ itemcontent = IF rows THEN Store.itemcontent ELSE <<>>
    /\ overflow_checks = TRUE
    /\ current_pos = 0
    /\ contents = <<>>
    /\ bstatus = "finished"
    /\ subdirs = <<>>
    /\ curdir = 0
    /\ walk = "top"
    /\ family = "unix"
    /\ FsInit
    /\ xpc = "closed"
    /\ plan = {}
    /\ content_id = -1
    /\ files = <<>>
    /\ file_count = 0
    /\ PoolAtRest
    /\ PathAtRest
    /\ HistAtRest

\* A call of is_pack_file.
IsPackFile ==
    /\ cmd = "is_pack_file" /\ cmd_result = <<>>
    /\ cmd_result' = is_pack_file(pack_file, fault)
    /\ UNCHANGED <<packvars, fsvars, readvars, poolvars, pathvars, pack_file,
                   fault, cmd, listed, reader_open, histvars>>

\* list_contents: the test, then the reader and the names of its entries
\* that are no directories.
list_contents ==
    /\ cmd = "list_contents" /\ cmd_result = <<>>
    /\ LET r == is_pack_file(pack_file, fault)
       IN IF r[1] = "Err"
          THEN cmd_result' = r /\ UNCHANGED <<listed, reader_open>>
          ELSE IF ~r[2]
          THEN /\ cmd_result' = Err("NotPackFile")
               /\ UNCHANGED <<listed, reader_open>>
          ELSE /\ reader_open' = TRUE
               /\ listed' = [k \in 1..Len(IndexedFiles(item))
                                |-> IndexedFiles(item)[k].path]
               /\ cmd_result' = Ok("unit")
    /\ UNCHANGED <<packvars, fsvars, readvars, poolvars, pathvars, pack_file,
                   fault, cmd, histvars>>

\* extract_contents with its test left out.
ExtractContentsUnchecked ==
    /\ cmd = "extract_contents" /\ cmd_result = <<>> /\ ~reader_open
    /\ reader_open' = TRUE
    /\ xpc' = "idle"
    /\ UNCHANGED cmd_result
    /\ UNCHANGED <<packvars, fsvars, plan, content_id, files, file_count,
                   poolvars, pathvars, pack_file, fault, cmd, listed,
                   histvars>>

\* extract_contents, to its call of extract_all: the test, then the reader.
extract_contents ==
    /\ cmd = "extract_contents" /\ cmd_result = <<>> /\ ~reader_open
    /\ LET r == is_pack_file(pack_file, fault)
       IN IF r[1] = "Err"
          THEN cmd_result' = r /\ UNCHANGED <<reader_open, xpc>>
          ELSE IF ~r[2]
          THEN /\ cmd_result' = Err("NotPackFile")
               /\ UNCHANGED <<reader_open, xpc>>
          ELSE /\ reader_open' = TRUE
               /\ xpc' = "idle"
               /\ UNCHANGED cmd_result
    /\ UNCHANGED <<packvars, fsvars, plan, content_id, files, file_count,
                   poolvars, pathvars, pack_file, fault, cmd, listed,
                   histvars>>

\* extract_contents, from the return of extract_all.
ExtractReturn ==
    /\ cmd = "extract_contents" /\ cmd_result = <<>> /\ reader_open
    /\ xpc \in {"done", "error"}
    /\ cmd_result' = IF xpc = "done" THEN Ok(file_count) ELSE Err("extract_all")
    /\ UNCHANGED <<packvars, fsvars, readvars, poolvars, pathvars, pack_file,
                   fault, cmd, listed, reader_open, histvars>>

CmdNext ==
    \/ IsPackFile
    \/ list_contents
    \/ extract_contents
    \/ ExtractBegin
    \/ ExtractRow
    \/ ExtractEnd
    \/ ExtractReturn

SpecCmd == CmdInit /\ [][CmdNext]_vars

(***************************************************************************)
(* Properties of is_pack_file, list_contents and extract_contents.         *)
(***************************************************************************)
\* A regular file longer than 16 bytes that starts with the SQLite header
\* and whose table item can be queried and has a row.
IsArchive(f) ==
    /\ f.kind = "file"
    /\ f.len > HeaderLen
    /\ f.magic
    /\ f.db = "item_rows"

\* C11 (as claimed): is_pack_file returns true exactly for an archive; for
\* an existing empty file, a file without the header and a database without
\* a table item it returns Ok(false); it returns an error only when a call
\* of the operating system has failed.
C11_IsPackFile ==
    (cmd = "is_pack_file" /\ cmd_result # <<>>) =>
        /\ cmd_result = Ok(TRUE) => IsArchive(pack_file)
        /\ (IsArchive(pack_file) /\ fault = "none") => cmd_result = Ok(TRUE)
        /\ (/\ pack_file.kind = "file"
            /\ fault = "none"
            /\ \/ pack_file.len = 0
               \/ ~pack_file.magic
               \/ pack_file.db = "no_item")
           => cmd_result = Ok(FALSE)
        /\ cmd_result[1] = "Err" =>
              fault # "none" \/ pack_file.kind = "missing"

\* What holds of the code: the same for every file but a database whose
\* table item cannot be read.
IsPackFileOfReadableStore ==
    (/\ cmd = "is_pack_file" /\ cmd_result # <<>>
     /\ ~(pack_file.kind = "file" /\ pack_file.db = "item_broken"))
    => C11_IsPackFile

\* C12: when is_pack_file is false for the file, list_contents and
\* extract_contents return NotPackFile, no reader is opened, nothing is
\* printed and no directory, file or symlink is made.
C12_NotPackFile ==
    (/\ cmd \in {"list_contents", "extract_contents"}
     /\ is_pack_file(pack_file, fault) = Ok(FALSE))
    => /\ ~reader_open
       /\ xpc = "closed"
       /\ listed = <<>>
       /\ fsdirs = {} /\ fsfiles = <<>> /\ fslinks = <<>> /\ escapes = {}
       /\ cmd_result \in {<<>>, Err("NotPackFile")}

\* extract_contents has refused a database that has no table item.
C12_Witness ==
    /\ cmd = "extract_contents"
    /\ cmd_result = Err("NotPackFile")
    /\ pack_file.kind = "file" /\ pack_file.magic /\ pack_file.db = "no_item"

(***************************************************************************)
(* Building an archive and extracting it twice into the same directory.    *)
(***************************************************************************)
\* extract_all has returned Ok and is called once more on the same archive,
\* in the same working directory.
ExtractAgain ==
    /\ xpc = "done" /\ first_tree = <<>>
    /\ first_tree' = <<fsdirs, fsfiles, fslinks>>
    /\ xpc' = "idle"
    /\ UNCHANGED <<packvars, fsvars, plan, content_id, files, file_count,
                   poolvars, pathvars, cmdvars, batches>>

TwiceNext ==
    \/ InputFile
    \/ InputDir
    \/ EntryDir
    \/ EntryFile
    \/ EntrySymlink
    \/ EndReadDir
    \/ Finish
    \/ ExtractBegin
    \/ ExtractRow
    \/ ExtractEnd
    \/ ExtractAgain

SpecTwice == Init /\ [][TwiceNext]_vars

\* C13 (as claimed): a second extract_all of the same archive into the same
\* directory succeeds and leaves the directories, the files with their
\* bytes and the symlinks with their targets as the first one left them.
C13_Idempotent ==
    first_tree # <<>> =>
        /\ xpc # "error"
        /\ xpc = "done" => <<fsdirs, fsfiles, fslinks>> = first_tree

\* What holds of the code: the same for an archive without symlinks.
IdempotentWithoutSymlinks ==
    (first_tree # <<>> /\ ItemsOfKind(KIND_SYMLINK) = {}) =>
        /\ xpc # "error"
        /\ xpc = "done" => <<fsdirs, fsfiles, fslinks>> = first_tree

(***************************************************************************)
(* Extracting an archive of a writer that keeps no itemcontent row for an  *)
(* empty file: the archive PackBuilder makes, less the rows of size 0 of   *)
(* its FILE items.                                                         *)
(***************************************************************************)
EmptyFileRow(row) == row.size = 0 /\ item[row.item].kind = KIND_FILE

FilesWithoutRow ==
    {i \in ItemsOfKind(KIND_FILE) : RowsOfItem(i) = {}}

\* The archive as the other writer leaves it.
DropEmptyRows ==
    /\ bstatus = "finished" /\ xpc = "idle"
    /\ \E j \in 1..Len(itemcontent) : EmptyFileRow(itemcontent[j])
    /\ itemcontent' = SelectSeq(itemcontent, LAMBDA row : ~EmptyFileRow(row))
    /\ UNCHANGED <<srclen, overflow_checks, item, content, current_pos,
                   contents, bstatus, subdirs, curdir, walk, target, fsvars,
                   readvars, poolvars, pathvars, cmdvars, histvars>>

BareNext ==
    \/ InputFile
    \/ InputDir
    \/ EntryDir
    \/ EntryFile
    \/ EntrySymlink
    \/ EndReadDir
    \/ Finish
    \/ DropEmptyRows
    \/ ExtractBegin
    \/ ExtractRow
    \/ ExtractEnd

SpecBare == Init /\ [][BareNext]_vars

\* C14 (as claimed): extract_all of an archive that has a FILE item without
\* any itemcontent row returns without error and has made that file, empty.
C14_EmptyFileWithoutRow ==
    FilesWithoutRow # {} =>
        /\ xpc # "error"
        /\ xpc = "done" =>
              \A i \in FilesWithoutRow :
                  /\ SourceLoc(i) \in DOMAIN fsfiles
                  /\ fsfiles[SourceLoc(i)] = <<>>

\* What holds of the code: an empty file that has its row of size 0 is made,
\* empty.
EmptyFileWithRow ==
    (FilesWithoutRow = {} /\ xpc = "done") =>
        \A i \in ItemsOfKind(KIND_FILE) :
            srclen[i] = 0 =>
                /\ SourceLoc(i) \in DOMAIN fsfiles
                /\ fsfiles[SourceLoc(i)] = <<>>

(***************************************************************************)
(* More properties of the extraction of a built archive.                   *)
(***************************************************************************)
\* C15 (as claimed): extract_all of a built archive into an empty directory
\* returns the number of FILE items of the archive.
C15_FileCount ==
    xpc = "done" => file_count = Cardinality(ItemsOfKind(KIND_FILE))

\* What holds of the code: the same when no FILE item has a slice of size 0
\* beside another slice.
FileCountWithoutEmptyHead ==
    (/\ xpc = "done"
     /\ \A j \in 1..Len(itemcontent) :
           EmptyFileRow(itemcontent[j]) => srclen[itemcontent[j].item] = 0)
    => file_count = Cardinality(ItemsOfKind(KIND_FILE))

RECURSIVE Flatten(_)
Flatten(seqs) ==
    IF seqs = <<>> THEN <<>> ELSE Head(seqs) \o Flatten(Tail(seqs))

\* C16: when extract_all returns, the batches it handed to process_content,
\* one after the other, are the rows of the scatter plan, each once and in
\* the order of the plan; a batch holds the rows of one content id and no
\* content id has two batches, so each blob was decoded once.
C16_Batches ==
    xpc = "done" =>
        LET rows == Flatten(batches)
            whole == ScatterPlan(item, itemcontent)
        IN /\ Len(rows) = Cardinality(whole)
           /\ {rows[k] : k \in 1..Len(rows)} = whole
           /\ \A k, l \in 1..Len(rows) : k < l => ~RowBefore(rows[l], rows[k])
           /\ \A b \in 1..Len(batches) :
                 /\ batches[b] # <<>>
                 /\ \A k \in 1..Len(batches[b]) :
                       batches[b][k].content = batches[b][1].content
           /\ \A b, c \in 1..Len(batches) :
                 b < c => batches[b][1].content < batches[c][1].content

\* extract_all has returned after three batches, the last of them of two
\* rows.
C16_Witness ==
    /\ xpc = "done"
    /\ Len(batches) = 3
    /\ Len(batches[3]) = 2

(***************************************************************************)
(* process_content on the slices of an archive in any order: the archive   *)
(* of a few files given to create_archive one by one, its rows handed over *)
(* one or two at a time, rows of one content row together.                 *)
(***************************************************************************)
MaxOrderFiles == 3

OrderLens == {0, 1, BUNDLE_SIZE - 1, 2 * BUNDLE_SIZE + 1}

\* create_archive on files only: add_file for each input from the n-th on,
\* then finish.
RECURSIVE BuildFiles(_, _, _)
BuildFiles(b, len, n) ==
    IF n > Len(len) THEN finish(b, len)
    ELSE BuildFiles(add_file(b, len, TRUE, 0), len, n + 1)

OrderInit ==
    /\ srclen \in UNION {[1..n -> OrderLens] : n \in 1..MaxOrderFiles}
    /\ target = [i \in 1..Len(srclen) |-> <<>>]
    /\ LET b == BuildFiles(EmptyBuilder, srclen, 1)
       IN /\ item = b.item
          /\ content = b.content
          /\ itemcontent = b.itemcontent
          /\ current_pos = b.current_pos
          /\ contents = b.contents
          /\ bstatus = b.status
    /\ overflow_checks = TRUE
    /\ subdirs = <<>>
    /\ curdir = 0
    /\ walk = "top"
    /\ family = "unix"
    /\ FsInit
    /\ ReadInit
    /\ PoolAtRest
    /\ PathAtRest
    /\ CmdAtRest
    /\ HistAtRest

\* A call of process_content with rows of one content row that have not
\* been handed over yet.
ProcessSlices ==
    /\ xpc = "rows"
    /\ \E a \in plan, b \in plan :
          /\ a.content = b.content
          /\ LET batch == IF a = b THEN <<a>> ELSE <<a, b>>
                 r == process_content(family, DestFs, content, batch)
             IN /\ SetFs(r.fs)
                /\ file_count' = file_count + r.file_count
                /\ xpc' = IF r.fs.ok THEN "rows" ELSE "error"
          /\ plan' = plan \ {a, b}
    /\ UNCHANGED <<packvars, family, content_id, files, poolvars, pathvars,
                   cmdvars, histvars>>

\* Every row has been handed over.
SlicesDone ==
    /\ xpc = "rows" /\ plan = {}
    /\ xpc' = "done"
    /\ UNCHANGED <<packvars, fsvars, plan, content_id, files, file_count,
                   poolvars, pathvars, cmdvars, histvars>>

OrderNext ==
    \/ ExtractBegin
    \/ ProcessSlices
    \/ SlicesDone

SpecOrder == OrderInit /\ [][OrderNext]_vars

\* C17: once all the slices of the files have been processed, in whatever
\* order, every file holds exactly its original bytes.
C17_AnyOrder ==
    /\ xpc # "error"
    /\ xpc = "done" =>
          \A i \in ItemsOfKind(KIND_FILE) :
             /\ SourceLoc(i) \in DOMAIN fsfiles
             /\ fsfiles[SourceLoc(i)] = SegsNorm(SourceBytes(srclen, i))

\* A slice of a file has been written before the slices below it: the
\* file was extended to the slice's itempos and begins with the filling.
C17_Witness ==
    /\ xpc = "rows"
    /\ \E i \in ItemsOfKind(KIND_FILE) :
          /\ SourceLoc(i) \in DOMAIN fsfiles
          /\ Len(fsfiles[SourceLoc(i)]) = 2
          /\ fsfiles[SourceLoc(i)][1] = <<0, 0, BUNDLE_SIZE>>
          /\ fsfiles[SourceLoc(i)][2] = <<i, BUNDLE_SIZE, BUNDLE_SIZE + 1>>

(***************************************************************************)
(* create_archive on files only: the layout of the slices add_file makes   *)
(* and the filling of the bundles.                                         *)
(***************************************************************************)
MaxFiles == 3

SplitLens == {0, 1, BUNDLE_SIZE - 1, BUNDLE_SIZE, 20000000,
              2 * BUNDLE_SIZE + 1}

\* create_archive: an input that is a file, add_file(input, 0).
AddFile ==
    /\ bstatus = "building" /\ walk = "top" /\ Len(item) < MaxFiles
    /\ \E l \in SplitLens :
          /\ srclen' = Append(srclen, l)
          /\ SetBuilder(add_file(Builder, srclen', overflow_checks, 0))
    /\ target' = Append(target, <<>>)
    /\ UNCHANGED <<overflow_checks, subdirs, curdir, walk, fsvars, readvars,
                   poolvars, pathvars, cmdvars, histvars>>

FilesNext ==
    \/ AddFile
    \/ Finish

SpecFiles == Init /\ [][FilesNext]_vars

\* The slices the claim gives a file of length L added at cursor p.
SlicesOf(p, L) ==
    IF L <= BUNDLE_SIZE - p
    THEN <<[itempos |-> 0, contentpos |-> p, size |-> L]>>
    ELSE LET head == BUNDLE_SIZE - p
             full == (L - head - 1) \div BUNDLE_SIZE
         IN <<[itempos |-> 0, contentpos |-> p, size |-> head]>>
            \o [k \in 1..full |->
                  [itempos |-> head + (k - 1) * BUNDLE_SIZE, contentpos |-> 0,
                   size |-> BUNDLE_SIZE]]
            \o <<[itempos |-> head + full * BUNDLE_SIZE, contentpos |-> 0,
                  size |-> L - head - full * BUNDLE_SIZE]>>

\* The slices of item i among the rows or the pending slices in seq, in
\* order.
Slices(seq, i) ==
    LET own == SelectSeq(seq, LAMBDA c : c.item = i)
    IN [k \in 1..Len(own) |->
          [itempos |-> own[k].itempos, contentpos |-> own[k].contentpos,
           size |-> own[k].size]]

\* A step of add_file gives the file the slices of SlicesOf, all but the
\* last flushed, one per new content row.
AddFileLayout ==
    Len(item') = Len(item) + 1 =>
        LET id == Len(item')
            L == srclen'[id]
            p == current_pos
            want == SlicesOf(p, L)
            flushed == SubSeq(itemcontent', Len(itemcontent) + 1,
                              Len(itemcontent'))
            mine == SelectSeq(flushed, LAMBDA c : c.item = id)
        IN /\ 0 <= p /\ p <= BUNDLE_SIZE
           /\ Slices(flushed, id) \o Slices(contents', id) = want
           /\ Len(Slices(contents', id)) = 1
           /\ Len(content') = Len(content) + Len(want) - 1
           /\ \A k \in 1..Len(mine) : mine[k].content = Len(content) + k
           /\ \A k \in 2..Len(want) :
                 want[k].itempos = want[k - 1].itempos + want[k - 1].size

\* C18: add_file on a file of length L at cursor p makes one slice
\* (0, p, L) without a flush when L <= BUNDLE_SIZE - p, and otherwise a head
\* slice (p, BUNDLE_SIZE - p), full slices at contentpos 0 while more than
\* BUNDLE_SIZE bytes remain and a last slice with the rest, each but the
\* last followed by a flush and each starting where the one before ended in
\* the file.  A file of 20,000,000 bytes alone gives the rows
\* (0, 16777216) and (16777216, 3222784) in two content rows.
C18_SliceLayout ==
    /\ [][AddFileLayout]_vars
    /\ [](bstatus = "finished" /\ srclen = <<20000000>> =>
            /\ Len(content) = 2
            /\ itemcontent =
                 <<[item |-> 1, itempos |-> 0, content |-> 1,
                    contentpos |-> 0, size |-> 16777216],
                   [item |-> 1, itempos |-> 16777216, content |-> 2,
                    contentpos |-> 0, size |-> 3222784]>>)

\* add_file has just split a file of two bundles and a byte at cursor 1:
\* head and full slice are flushed, the last two bytes are pending.
C18_Witness ==
    /\ bstatus = "building"
    /\ srclen = <<1, 2 * BUNDLE_SIZE + 1>>
    /\ Len(content) = 2
    /\ Slices(contents, 2) =
          <<[itempos |-> 2 * BUNDLE_SIZE - 1, contentpos |-> 0, size |-> 2]>>

RECURSIVE TotalLen(_)
TotalLen(len) == IF len = <<>> THEN 0 ELSE Head(len) + TotalLen(Tail(len))

\* The archive of ten files of 2,000,000 bytes.
TenFiles == BuildFiles(EmptyBuilder, [i \in 1..10 |-> 2000000], 1)

\* C19: after a build from files only, the sizes of the rows of every
\* content row but the last sum to exactly BUNDLE_SIZE, and files of T > 0
\* bytes in all take ceil(T / BUNDLE_SIZE) content rows.  Ten files of
\* 2,000,000 bytes take two: eight files and the head of the ninth, then
\* the tail of the ninth and the tenth.
C19_GreedyBundles ==
    /\ bstatus = "finished" =>
          LET T == TotalLen(srclen)
          IN /\ \A c \in 1..(Len(content) - 1) :
                   SumSizes(RowsOfContent(c)) = BUNDLE_SIZE
             /\ T > 0 => Len(content) = (T + BUNDLE_SIZE - 1) \div BUNDLE_SIZE
    /\ Len(TenFiles.content) = 2
    /\ {r.item : r \in {TenFiles.itemcontent[j] :
                          j \in {j \in 1..Len(TenFiles.itemcontent) :
                                   TenFiles.itemcontent[j].content = 1}}}
          = 1..9
    /\ {r.item : r \in {TenFiles.itemcontent[j] :
                          j \in {j \in 1..Len(TenFiles.itemcontent) :
                                   TenFiles.itemcontent[j].content = 2}}}
          = {9, 10}

\* A build of three files is over with three content rows, the first of
\* them shared by two files.
C19_Witness ==
    /\ bstatus = "finished"
    /\ Len(srclen) = 3
    /\ Len(content) = 3
    /\ \E j, k \in RowsOfContent(1) :
          /\ itemcontent[j].item # itemcontent[k].item
          /\ itemcontent[j].size > 0 /\ itemcontent[k].size > 0

\* Following the parent links from item i for at most n steps reaches 0.
RECURSIVE ReachesRoot(_, _)
ReachesRoot(i, n) ==
    \/ i = 0
    \/ /\ n > 0
       /\ i \in 1..Len(item)
       /\ ReachesRoot(item[i].parent, n - 1)

\* The parent of every row is 0 or a DIRECTORY row with a smaller id, and
\* the parent links lead from every row to 0.
ParentForest ==
    \A i \in 1..Len(item) :
        /\ \/ item[i].parent = 0
           \/ /\ item[i].parent \in 1..(i - 1)
              /\ item[item[i].parent].kind = KIND_DIRECTORY
        /\ ReachesRoot(i, Len(item))

\* A step of create_archive's own loop adds a row with parent 0; a file or
\* a link met by add_dir_all gets the directory being read as its parent.
RootStep ==
    Len(item') = Len(item) + 1 =>
        LET new == item'[Len(item')]
        IN /\ walk = "top" => new.parent = 0
           /\ walk = "dir" /\ new.kind # KIND_DIRECTORY =>
                 new.parent = curdir /\ item[curdir].kind = KIND_DIRECTORY

\* C20: at every point of a build every row with parent # 0 has as parent
\* an existing DIRECTORY row with a smaller id, the directory it was found
\* in, and every input of create_archive has parent 0; the parent links
\* lead to 0 and the rows form a forest.
C20_ParentForest ==
    /\ []ParentForest
    /\ [][RootStep]_vars

\* A file lies in a directory that lies in a directory, and a later input
\* is a root of its own.
C20_Witness ==
    /\ Len(item) = 4
    /\ item[1].kind = KIND_DIRECTORY /\ item[1].parent = 0
    /\ item[2].kind = KIND_DIRECTORY /\ item[2].parent = 1
    /\ item[3].kind = KIND_FILE /\ item[3].parent = 2
    /\ item[4].parent = 0

(***************************************************************************)
(* The build alone: create_archive and add_dir_all up to finish.           *)
(***************************************************************************)
BuildNext ==
    \/ InputFile
    \/ InputDir
    \/ EntryDir
    \/ EntryFile
    \/ EntrySymlink
    \/ EndReadDir
    \/ Finish

SpecBuild == Init /\ [][BuildNext]_vars

\* The slices in seq, rows of itemcontent or pending slices, in order.
AllSlices(seq) ==
    [k \in 1..Len(seq) |->
        [item |-> seq[k].item, itempos |-> seq[k].itempos,
         contentpos |-> seq[k].contentpos, size |-> seq[k].size]]

\* The slices recorded as rows followed by the pending ones.
Appended == AllSlices(itemcontent) \o AllSlices(contents)

\* No step of a build that goes on loses, repeats or alters a slice: the
\* rows and the pending slices after it are those before it, followed by the
\* slices of the entry it added; finish on an empty pending list adds no
\* content row.
SlicesKept ==
    bstatus' \in {"building", "finished"} =>
        /\ Len(Appended') >= Len(Appended)
        /\ SubSeq(Appended', 1, Len(Appended)) = Appended
        /\ \A k \in (Len(Appended) + 1)..Len(Appended') :
              Len(item') = Len(item) + 1 /\ Appended'[k].item = Len(item')
        /\ Len(AllSlices(itemcontent')) >= Len(itemcontent)
        /\ bstatus' = "finished" /\ contents = <<>> => content' = content

\* C21: once finish has returned Ok nothing is pending and current_pos is
\* 0; every slice add_file or add_symlink appended is exactly one row of
\* itemcontent; finish on an empty pending list adds no content row.
C21_FinishFlushes ==
    /\ [](bstatus = "finished" => contents = <<>> /\ current_pos = 0)
    /\ [][SlicesKept]_vars

\* finish has flushed the last bundle of a build that had flushed one
\* before: a link and the tail of a file that was split.
C21_Witness ==
    /\ bstatus = "finished"
    /\ Len(content) = 2
    /\ \E j, k \in RowsOfContent(2) :
          /\ item[itemcontent[j].item].kind = KIND_SYMLINK
          /\ item[itemcontent[k].item].kind = KIND_FILE
          /\ itemcontent[k].itempos > 0

(***************************************************************************)
(* The build on either platform: what add_symlink takes as the length of a *)
(* link is the len() of its symlink_metadata.                              *)
(***************************************************************************)
\* fs::symlink_metadata(path).len() of a symbolic link: the length of the
\* target on unix (st_size of lstat); on windows the size of the reparse
\* point's data stream, which is 0.
symlink_len(fam, t) == IF fam = "windows" THEN 0 ELSE Len(t)

LinkInit ==
    /\ PackInit
    /\ family \in {"unix", "windows"}
    /\ FsInit
    /\ ReadInit
    /\ PoolAtRest
    /\ PathAtRest
    /\ CmdAtRest
    /\ HistAtRest

\* add_dir_all: the directory being read holds a symbolic link; read_link
\* at the flush reads the whole target whatever the length taken here.
EntryLink ==
    /\ bstatus = "building" /\ walk = "dir" /\ TreeSize < MaxItems
    /\ \E t \in LinkTargets :
          /\ srclen' = Append(srclen, Len(t))
          /\ target' = Append(target, t)
          /\ SetBuilder(add_symlink(
                Builder,
                [srclen' EXCEPT ![Len(item) + 1] = symlink_len(family, t)],
                curdir))
    /\ UNCHANGED <<overflow_checks, subdirs, curdir, walk, fsvars, readvars,
                   poolvars, pathvars, cmdvars, histvars>>

LinkNext ==
    \/ InputDir
    \/ EntryDir
    \/ EntryFile
    \/ EntryLink
    \/ EndReadDir
    \/ Finish

SpecLink == LinkInit /\ [][LinkNext]_vars

\* The one row of every SYMLINK item: itempos 0, inside the bytes of its
\* content row.
OneLinkRow ==
    \A i \in ItemsOfKind(KIND_SYMLINK) :
        /\ Cardinality(RowsOfItem(i)) = 1
        /\ \A j \in RowsOfItem(i) :
              /\ itemcontent[j].itempos = 0
              /\ itemcontent[j].contentpos + itemcontent[j].size
                    <= SegsLen(Decompress(content[itemcontent[j].content]))

\* C22 (as claimed): after a build every SYMLINK item has exactly one
\* itemcontent row, with itempos 0 and the length of the link's target as
\* its size, inside one content row.
C22_SymlinkRow ==
    bstatus = "finished" =>
        /\ OneLinkRow
        /\ \A i \in ItemsOfKind(KIND_SYMLINK) :
              \A j \in RowsOfItem(i) : itemcontent[j].size = Len(target[i])

\* What holds of the code: one row with itempos 0 on either platform, of
\* the target's length on unix; a step that adds a link flushes nothing.
SymlinkRowOnUnix ==
    /\ [](bstatus = "finished" =>
            /\ OneLinkRow
            /\ family = "unix" =>
                  \A i \in ItemsOfKind(KIND_SYMLINK) :
                     \A j \in RowsOfItem(i) :
                        itemcontent[j].size = Len(target[i]))
    /\ [][(/\ Len(item') = Len(item) + 1
           /\ item'[Len(item')].kind = KIND_SYMLINK)
          => /\ content' = content
             /\ itemcontent' = itemcontent
             /\ Len(contents') = Len(contents) + 1]_vars

(***************************************************************************)
(* The build with a store that may take fewer bytes than it is given when  *)
(* a blob is written.                                                      *)
(***************************************************************************)
\* insert_content when blob.write returns less than the length of the
\* encoded bundle: the row of the table content is there, the error
\* IncompleteBlobWrite is returned before any row of itemcontent is written.
insert_content_short(b, len) ==
    [b EXCEPT !.content = Append(@, [zstd |-> <<>>]),
              !.status = "incomplete_blob_write"]

\* process_contents that starts a new bundle whatever insert_content
\* returned.
process_contents_resets(b, len, whole) ==
    LET r == IF whole THEN insert_content(b, len)
             ELSE insert_content_short(b, len)
    IN [r EXCEPT !.contents = <<>>, !.current_pos = 0]

\* process_contents, the blob written whole or not.
process_contents_io(b, len, whole) ==
    IF whole THEN process_contents(b, len) ELSE insert_content_short(b, len)

\* The loop of add_file; the write of the short_at-th flush from here on
\* is short, none when short_at is 0.
RECURSIVE SplitLoopIO(_, _, _, _, _, _, _)
SplitLoopIO(b, len, checks, item_id, itempos, size, short_at) ==
    IF b.current_pos + size > BUNDLE_SIZE
    THEN IF b.current_pos > BUNDLE_SIZE /\ checks
         THEN [b EXCEPT !.status = "panicked"]
         ELSE LET remainder == BUNDLE_SIZE - b.current_pos
                  pushed == [b EXCEPT !.contents = Append(@,
                                IncomingContent(KIND_FILE, item_id, itempos,
                                                b.current_pos, remainder))]
                  flushed == process_contents_io(pushed, len, short_at # 1)
              IN IF flushed.status # "building" THEN flushed
                 ELSE SplitLoopIO(flushed, len, checks, item_id,
                                  itempos + remainder, size - remainder,
                                  IF short_at = 0 THEN 0 ELSE short_at - 1)
    ELSE [b EXCEPT !.contents = Append(@,
                        IncomingContent(KIND_FILE, item_id, itempos,
                                        b.current_pos, size)),
                   !.current_pos = @ + size]

add_file_io(b, len, checks, parent, short_at) ==
    LET item_id == Len(b.item) + 1
        b1 == [b EXCEPT !.item = Append(@, [parent |-> parent, kind |-> KIND_FILE,
                                            name |-> get_file_name(item_id)])]
    IN SplitLoopIO(b1, len, checks, item_id, 0, len[item_id], short_at)

finish_io(b, len, whole) ==
    LET r == IF b.contents # <<>> THEN process_contents_io(b, len, whole) ELSE b
    IN IF r.status # "building" THEN r ELSE [r EXCEPT !.status = "finished"]

\* Which flush of a call has the short write: none, the first, the second
\* or the third.
ShortAt == 0..3

\* create_archive: an input that is a file.
AddFileIO ==
    /\ bstatus = "building" /\ walk = "top" /\ Len(item) < MaxFiles
    /\ \E l \in FileLens, short_at \in ShortAt :
          /\ srclen' = Append(srclen, l)
          /\ SetBuilder(add_file_io(Builder, srclen', overflow_checks, 0,
                                    short_at))
    /\ target' = Append(target, <<>>)
    /\ UNCHANGED <<overflow_checks, subdirs, curdir, walk, fsvars, readvars,
                   poolvars, pathvars, cmdvars, histvars>>

\* create_archive: the inputs are exhausted.
FinishIO ==
    /\ bstatus = "building" /\ walk = "top"
    /\ \E whole \in BOOLEAN : SetBuilder(finish_io(Builder, srclen, whole))
    /\ UNCHANGED <<srclen, target, overflow_checks, subdirs, curdir, walk,
                   fsvars, readvars, poolvars, pathvars, cmdvars, histvars>>

FaultNext ==
    \/ AddFileIO
    \/ FinishIO

SpecFault == Init /\ [][FaultNext]_vars

\* A step that ends in IncompleteBlobWrite: the bundle has its content row
\* and no row of itemcontent, what was pending is still pending and
\* current_pos is where it was when the flush began.
ShortWriteStep ==
    bstatus' = "incomplete_blob_write" =>
        LET cid == Len(content')
            last == contents'[Len(contents')]
        IN /\ cid > Len(content)
           /\ \A j \in 1..Len(itemcontent') : itemcontent'[j].content # cid
           /\ contents' # <<>>
           /\ Len(item') = Len(item) =>
                 /\ contents' = contents
                 /\ current_pos' = current_pos
                 /\ itemcontent' = itemcontent
                 /\ cid = Len(content) + 1
           /\ Len(item') = Len(item) + 1 =>
                 /\ last.item = Len(item')
                 /\ last.contentpos = current_pos'
                 /\ last.contentpos + last.size = BUNDLE_SIZE
                 /\ cid = Len(content) + 1 =>
                       /\ SubSeq(contents', 1, Len(contents)) = contents
                       /\ Len(contents') = Len(contents) + 1
                       /\ current_pos' = current_pos
                       /\ itemcontent' = itemcontent
                 /\ cid > Len(content) + 1 =>
                       Len(contents') = 1 /\ current_pos' = 0

\* C23: when the blob write of a flush is short, insert_content fails with
\* IncompleteBlobWrite: the bundle gets no row of itemcontent, the pending
\* list and current_pos are not reset, and the add_file or finish call
\* that flushed is aborted: nothing is done after the error.
C23_IncompleteBlobWrite ==
    /\ [][ShortWriteStep]_vars
    /\ [][bstatus = "incomplete_blob_write" => UNCHANGED vars]_vars

\* add_file has been stopped by a short write at its second flush: the
\* slice that filled the bundle is pending, the first bundle has its rows.
C23_Witness ==
    /\ bstatus = "incomplete_blob_write"
    /\ Len(content) = 2
    /\ Len(contents) = 1 /\ contents[1].size = BUNDLE_SIZE
    /\ itemcontent # <<>>

\* C24 (as claimed): after a build a row of size 0 belongs to a FILE item
\* if and only if the file is empty, and it is then the only row of the
\* item, with itempos 0.
C24_EmptyRow ==
    bstatus = "finished" =>
        \A i \in ItemsOfKind(KIND_FILE) :
            /\ (\E j \in RowsOfItem(i) : itemcontent[j].size = 0)
                  <=> srclen[i] = 0
            /\ srclen[i] = 0 =>
                  /\ Cardinality(RowsOfItem(i)) = 1
                  /\ \A j \in RowsOfItem(i) : itemcontent[j].itempos = 0

\* What holds of the code: an empty file has one row, of size 0 and itempos
\* 0; a row of size 0 of a file that is not empty is the head slice made
\* when the pending bundle was exactly full.
EmptyRowOrFullBundle ==
    bstatus = "finished" =>
        \A i \in ItemsOfKind(KIND_FILE) :
            /\ srclen[i] = 0 =>
                  /\ Cardinality(RowsOfItem(i)) = 1
                  /\ \A j \in RowsOfItem(i) :
                        itemcontent[j].itempos = 0 /\ itemcontent[j].size = 0
            /\ \A j \in RowsOfItem(i) :
                  itemcontent[j].size = 0 /\ srclen[i] > 0 =>
                     /\ itemcontent[j].itempos = 0
                     /\ itemcontent[j].contentpos = BUNDLE_SIZE

\* The rows of content row c that are slices of a file with a slice in a
\* later content row.
Continued(c) ==
    {j \in RowsOfContent(c) :
        \E k \in RowsOfItem(itemcontent[j].item) : itemcontent[k].content > c}

\* Row k continues row j: the first row of the next content row, at
\* contentpos 0, where row j ended in the file.
Continues(k, j) ==
    /\ itemcontent[k].item = itemcontent[j].item
    /\ itemcontent[k].content = itemcontent[j].content + 1
    /\ itemcontent[k].contentpos = 0
    /\ itemcontent[k].itempos = itemcontent[j].itempos + itemcontent[j].size
    /\ \A m \in RowsOfContent(itemcontent[k].content) : k <= m

\* C25 (as claimed): after a build every content row has at most one slice
\* of a file that goes on in a later content row; it is the last row of its
\* bundle and ends at BUNDLE_SIZE, and the first row of the next content
\* row continues it, at contentpos 0 and itempos > 0.  Every row with
\* itempos > 0 has contentpos 0.
C25_SuffixSlice ==
    bstatus = "finished" =>
        /\ \A c \in 1..Len(content) :
              /\ Cardinality(Continued(c)) <= 1
              /\ \A j \in Continued(c) :
                    /\ \A m \in RowsOfContent(c) : m <= j
                    /\ itemcontent[j].contentpos + itemcontent[j].size
                          = BUNDLE_SIZE
                    /\ \E k \in 1..Len(itemcontent) :
                          Continues(k, j) /\ itemcontent[k].itempos > 0
        /\ \A j \in 1..Len(itemcontent) :
              itemcontent[j].itempos > 0 => itemcontent[j].contentpos = 0

\* What holds of the code: the same, but the continuation of a slice of
\* size 0 has itempos 0.
SuffixSliceOrEmptyHead ==
    bstatus = "finished" =>
        /\ \A c \in 1..Len(content) :
              /\ Cardinality(Continued(c)) <= 1
              /\ \A j \in Continued(c) :
                    /\ \A m \in RowsOfContent(c) : m <= j
                    /\ itemcontent[j].contentpos + itemcontent[j].size
                          = BUNDLE_SIZE
                    /\ \E k \in 1..Len(itemcontent) : Continues(k, j)
        /\ \A j \in 1..Len(itemcontent) :
              itemcontent[j].itempos > 0 => itemcontent[j].contentpos = 0

ReceiverAlive == \E w \in Workers : wpc[w] \notin {"dead", "exited"}

\* Worker: job() panics; the thread ends without counting the job.
WorkerPanic(w) ==
    /\ wpc[w] = "run"
    /\ wpc' = [wpc EXCEPT ![w] = "dead"]
    /\ chan' = IF \A v \in Workers \ {w} : wpc[v] \in {"dead", "exited"}
               THEN <<>> ELSE chan
    /\ UNCHANGED <<nonpool, pool_size, sender, counts, wjob, mainpc, joined,
                   runs, accepted, queued_at_drop, wait_result>>

\* execute, from its send, the receiver being there.
ExecuteSendOk == ReceiverAlive /\ ExecuteSend

\* execute, from its send: the receiver is gone, send fails and execute
\* returns the error; the guard is dropped.
ExecuteSendError ==
    /\ mainpc = "send" /\ ~ReceiverAlive
    /\ cmd_result' = Err("SendError")
    /\ mainpc' = "idle"
    /\ UNCHANGED <<packvars, fsvars, readvars, pathvars, histvars, pack_file,
                   fault, cmd, listed, reader_open, pool_size, sender, chan,
                   counts, wpc, wjob, joined, runs, accepted, queued_at_drop,
                   wait_result>>

\* drop: the join of a worker thread that panicked returns Err and expect
\* panics.
JoinDead ==
    /\ mainpc = "join"
    /\ wpc[joined + 1] = "dead"
    /\ mainpc' = "drop_panicked"
    /\ UNCHANGED <<nonpool, pool_size, sender, chan, counts, wpc, wjob, joined,
                   runs, accepted, queued_at_drop, wait_result>>

PanicNext ==
    \/ ExecuteLock
    \/ ExecuteSendOk
    \/ ExecuteSendError
    \/ WaitLock
    \/ WaitCheck
    \/ SpuriousWake
    \/ DropSender
    \/ JoinWorker
    \/ JoinDead
    \/ \E w \in Workers : WorkerLockReceiver(w)
    \/ \E w \in Workers : WorkerRecv(w)
    \/ \E w \in Workers : WorkerExit(w)
    \/ \E w \in Workers : WorkerRun(w)
    \/ \E w \in Workers : WorkerPanic(w)
    \/ \E w \in Workers : WorkerLockTracker(w)
    \/ \E w \in Workers : WorkerBump(w)

SpecPanic == PoolInit /\ [][PanicNext]_vars

\* The jobs a worker has received and not yet counted.
InWorkers == {w \in Workers : wpc[w] \in {"run", "ran", "bump"}}

\* C27 (as claimed): completed <= started, and started - completed is the
\* number of jobs in the channel, received by a worker and not yet counted,
\* or being sent by an execute in progress; the channel holds at most
\* pool_size jobs and at most pool_size jobs run at a time.
C27_Counts ==
    /\ counts[2] <= counts[1]
    /\ counts[1] - counts[2]
          = Len(chan) + Cardinality(InWorkers)
            + (IF mainpc = "send" THEN 1 ELSE 0)
    /\ Len(chan) <= pool_size
    /\ Cardinality(InWorkers) <= pool_size

\* What holds of the code: the bounds, and the count as long as no job has
\* panicked.
CountsUntilPanic ==
    /\ counts[2] <= counts[1]
    /\ Len(chan) <= pool_size
    /\ Cardinality(InWorkers) <= pool_size
    /\ (\A w \in Workers : wpc[w] # "dead") =>
          counts[1] - counts[2]
             = Len(chan) + Cardinality(InWorkers)
               + (IF mainpc = "send" THEN 1 ELSE 0)

\* C28 (as claimed): an execute call that returns an error leaves the
\* counters as they were; between execute calls the jobs-started count is
\* the number of jobs the channel has accepted, so wait_until_done waits
\* for no job that was not queued.
C28_ErrorKeepsCounts ==
    mainpc # "send" => counts[1] = Cardinality(accepted)

\* What holds of the code: the count is right until an execute call fails
\* in its send, and one too high for every call that did.
CountsUntilSendError ==
    /\ mainpc # "send" /\ cmd_result = <<>>
          => counts[1] = Cardinality(accepted)
    /\ counts[1] >= Cardinality(accepted)

\* The pending slices lie end to end from position 0 of the bundle.
RECURSIVE Contiguous(_, _)
Contiguous(cs, pos) ==
    \/ cs = <<>>
    \/ /\ Head(cs).contentpos = pos
       /\ Contiguous(Tail(cs), pos + Head(cs).size)

RECURSIVE PendingSize(_)
PendingSize(cs) ==
    IF cs = <<>> THEN 0 ELSE Head(cs).size + PendingSize(Tail(cs))

\* C29: between the operations of a PackBuilder current_pos is the sum of
\* the sizes of the pending slices, and these lie end to end in the bundle
\* from contentpos 0 on; add_directory changes neither current_pos nor the
\* pending list.
C29_PendingContiguous ==
    /\ [](bstatus \in {"building", "finished"} =>
            /\ current_pos = PendingSize(contents)
            /\ Contiguous(contents, 0))
    /\ [][(/\ Len(item') = Len(item) + 1
           /\ item'[Len(item')].kind = KIND_DIRECTORY)
          => /\ current_pos' = current_pos
             /\ contents' = contents
             /\ content' = content
             /\ itemcontent' = itemcontent]_vars

\* A directory has just been added while a file's and a link's slices were
\* pending, the link's behind the file's.
C29_Witness ==
    /\ bstatus = "building"
    /\ item # <<>> /\ item[Len(item)].kind = KIND_DIRECTORY
    /\ Len(contents) = 2
    /\ contents[1].kind = KIND_FILE /\ contents[1].size > 0
    /\ contents[2].kind = KIND_SYMLINK /\ contents[2].contentpos > 0
    /\ current_pos = contents[2].contentpos + contents[2].size

\* C30 (as claimed): after any add_file and add_symlink calls current_pos
\* is at most BUNDLE_SIZE, so BUNDLE_SIZE - current_pos does not underflow
\* in add_file: no build panics on it and no size wraps.
C30_PosBound ==
    /\ current_pos <= BUNDLE_SIZE
    /\ bstatus \in {"building", "finished"}
    /\ \A k \in 1..Len(contents) : ~IsHuge(contents[k].size)

\* What holds of the code: current_pos is within BUNDLE_SIZE, and add_file
\* is safe, as long as no link has been added behind a file.
PosBoundWithoutLinks ==
    ItemsOfKind(KIND_SYMLINK) = {} =>
        /\ current_pos <= BUNDLE_SIZE
        /\ bstatus \in {"building", "finished"}
        /\ \A k \in 1..Len(contents) : ~IsHuge(contents[k].size)

====
